---- MODULE Spec2Model ----
(***************************************************************************)
(* JsonTalkiePlayer: the timed dispatch engine (PlayList), its shared UDP  *)
(* socket with peer discovery (TalkieSocket), and the wire checksum        *)
(* (calculate_checksum), and the list preparation of the MIDI player's     *)
(* PlayList, modelled from the C++ sources.                                *)
(*                                                                         *)
(* Texts are sequences of byte values.  Real-valued millisecond quantities *)
(* (time_ms, delay, drag) are integers counting 1/UnitsPerMs of a          *)
(* millisecond; clock readings are integers counting 1/TicksPerUs of a     *)
(* microsecond.                                                            *)
(***************************************************************************)
EXTENDS Integers, Sequences, FiniteSets, TLC

VARIABLES
    ck,                 \* the checksum function's last input and result
    pc,                 \* where PlayList is
    platform,           \* the build: "linux" or "win32"
    socket_initialized, \* TalkieSocket::socket_initialized
    sockfd,             \* TalkieSocket::sockfd, -1 when there is none
    sockopt,            \* what the kernel holds for that socket
    open_fds,           \* descriptors the process holds open
    inbox,              \* datagrams queued on the socket by the network
    received_messages,  \* TalkieSocket::received_messages
    devices,            \* every TalkieDevice ever constructed, by address
    devices_by_name,    \* TalkieSocket::devices_by_name: name -> address
    devices_by_channel, \* PlayList's per-file map: channel -> address
    total_updates,      \* TalkieSocket::total_updates
    bpm,                \* PlayList's per-file bpm_n and bpm_d
    talkieToProcess,    \* std::list<TalkiePin>
    talkieProcessed,    \* std::list<TalkiePin>
    play_reporting,     \* PlayList's PlayReporting
    now,                \* the clock, in ticks
    timing,             \* playing_start and the current pin's timing locals
    sent,               \* every datagram handed to sendto, in order
    counters,           \* how much input and traffic the run has had
    midiToProcess,      \* the MIDI player's std::list<MidiPin>
    midiProcessed,      \* the MIDI player's std::list<MidiPin>
    available_midi_devices,  \* std::vector<MidiDevice>, by position
    last_called_midi_device, \* the content loop's device, 0 for nullptr
    pin_it,             \* the clean-up loop's iterator, as a position
    last_message_time_ms,    \* the local of that name
    midi_reporting,     \* the MIDI player's PlayReporting
    midi_counters,      \* how much input the MIDI run has had
    midi_pc             \* where the MIDI player's PlayList is

vars == <<ck, pc, platform, socket_initialized, sockfd, sockopt, open_fds, inbox,
          received_messages, devices, devices_by_name, devices_by_channel,
          total_updates, bpm, talkieToProcess, talkieProcessed,
          play_reporting, now, timing, sent, counters,
          midiToProcess, midiProcessed, available_midi_devices,
          last_called_midi_device, pin_it, last_message_time_ms,
          midi_reporting, midi_counters, midi_pc>>

midiVars == <<midiToProcess, midiProcessed, available_midi_devices,
              last_called_midi_device, pin_it, last_message_time_ms,
              midi_reporting, midi_counters, midi_pc>>

playerVars == <<pc, platform, socket_initialized, sockfd, sockopt, open_fds, inbox,
          received_messages, devices, devices_by_name, devices_by_channel,
          total_updates, bpm, talkieToProcess, talkieProcessed,
          play_reporting, now, timing, sent, counters>>

\* ------------------------------------------------------------------------
\* Bounds of the model
\* ------------------------------------------------------------------------

\* Entries read from the input, over all files
MaxEntries == 3
\* Entries of the inputs that are played with a varying clock and a
\* network that delivers; longer inputs are played with the clock on time
\* and no peer answering
MaxBusyEntries == 2
\* Sends of a run that the transport refuses
MaxSendFailures == 1
\* Calls of initialize() in a row
MaxCalls == 12
\* Files (top-level elements) in the input
MaxFiles == 2
\* Datagrams the network delivers during a run
MaxArrivals == 4
\* Datagrams the socket's receive queue holds; one that finds it full is lost
MaxQueue == 2
\* Longest raw text handed to calculate_checksum on its own
MaxRawLen == 3
\* Resolution of real-valued milliseconds: units per microsecond
UnitsPerUs == 3
\* Resolution of the clock: ticks per microsecond
TicksPerUs == 2
\* Elements of the MIDI player's content after its clock
MaxMidiEntries == 4
\* total_clock_pulses of the MIDI player's clock
MaxClockPulses == 2

\* ------------------------------------------------------------------------
\* Bytes
\* ------------------------------------------------------------------------

\* ASCII byte values named in calculate_checksum
CH_c == 99
CH_COLON == 58
CH_QUOTE == 34
CH_0 == 48
CH_9 == 57

\* Punctuation and key letters written by the JSON encoder (message.dump())
JsonByte == [lbrace |-> 123, rbrace |-> 125, comma |-> 44, minus |-> 45,
             f |-> 102, i |-> 105, m |-> 109, n |-> 110, t |-> 116,
             v |-> 118, x |-> 120, A |-> 65, B |-> 66, Z |-> 90,
             space |-> 32, underscore |-> 95, b |-> 98, p |-> 112, d |-> 100]

IsDigit(b) == b >= CH_0 /\ b <= CH_9

\* 0-based read of a byte sequence, as bytes[i] in the source
At(bytes, i) == bytes[i + 1]

RECURSIVE Pow2(_)
Pow2(k) == IF k = 0 THEN 1 ELSE 2 * Pow2(k - 1)

\* Bitwise exclusive or of two naturals (operator ^ on uint16_t)
RECURSIVE Xor(_, _)
Xor(a, b) ==
    IF a = 0 THEN b
    ELSE IF b = 0 THEN a
    ELSE ((a + b) % 2) + 2 * Xor(a \div 2, b \div 2)

\* Bitwise or of two naturals (operator |=)
RECURSIVE BitOr(_, _)
BitOr(a, b) ==
    IF a = 0 THEN b
    ELSE IF b = 0 THEN a
    ELSE (IF (a % 2) + (b % 2) > 0 THEN 1 ELSE 0) + 2 * BitOr(a \div 2, b \div 2)

\* ------------------------------------------------------------------------
\* calculate_checksum
\* ------------------------------------------------------------------------

\* The test that starts a masking at index i: the four bytes before i are "c":
AtCPattern(bytes, i) ==
    /\ i > 3
    /\ At(bytes, i - 3) = CH_c
    /\ At(bytes, i - 1) = CH_COLON
    /\ At(bytes, i - 4) = CH_QUOTE
    /\ At(bytes, i - 2) = CH_QUOTE

\* A pre-processing loop that masks the byte after the colon and copies the
\* digits that follow it
RECURSIVE PreProcessFirstByteOnly(_, _)
PreProcessFirstByteOnly(bytes, loop) ==
    IF loop.i >= Len(bytes) THEN loop.data_bytes
    ELSE PreProcessFirstByteOnly(bytes,
            IF ~loop.at_c0 /\ AtCPattern(bytes, loop.i)
            THEN [i |-> loop.i + 1, at_c0 |-> TRUE,
                  data_bytes |-> Append(loop.data_bytes, CH_0)]
            ELSE [i |-> loop.i + 1, at_c0 |-> loop.at_c0,
                  data_bytes |-> Append(loop.data_bytes, At(bytes, loop.i))])

\* The pre-processing loop: data_bytes when the loop ends, loop holding i,
\* at_c0 and the bytes stored so far as they are when the loop tests i < len
RECURSIVE PreProcess(_, _)
PreProcess(bytes, loop) ==
    IF loop.i >= Len(bytes) THEN loop.data_bytes
    ELSE PreProcess(bytes,
            IF ~loop.at_c0 /\ AtCPattern(bytes, loop.i)
            THEN [i |-> loop.i + 1, at_c0 |-> TRUE,
                  data_bytes |-> Append(loop.data_bytes, CH_0)]
            ELSE IF loop.at_c0
                    /\ ~(At(bytes, loop.i) < CH_0 \/ At(bytes, loop.i) > CH_9)
            THEN [loop EXCEPT !.i = @ + 1]
            ELSE [i |-> loop.i + 1, at_c0 |-> FALSE,
                  data_bytes |-> Append(loop.data_bytes, At(bytes, loop.i))])

DerivedBytes(data) ==
    PreProcess(data, [i |-> 0, at_c0 |-> FALSE, data_bytes |-> <<>>])

\* A chunk that takes a final unpaired byte as its low byte
ChunkLastByteLow(data_bytes, i) ==
    IF i + 1 < Len(data_bytes)
    THEN BitOr((At(data_bytes, i) * 256) % 65536, At(data_bytes, i + 1))
    ELSE At(data_bytes, i)

\* chunk = data_bytes[i] << 8; if (i + 1 < len) chunk |= data_bytes[i + 1]
Chunk(data_bytes, i) ==
    LET hi == (At(data_bytes, i) * 256) % 65536
    IN  IF i + 1 < Len(data_bytes) THEN BitOr(hi, At(data_bytes, i + 1)) ELSE hi

\* The folding loop: checksum when the loop ends, loop holding i and checksum
\* as they are when the loop tests i < len
RECURSIVE FoldChunks(_, _)
FoldChunks(data_bytes, loop) ==
    IF loop.i >= Len(data_bytes) THEN loop.checksum
    ELSE FoldChunks(data_bytes,
            [i |-> loop.i + 2,
             checksum |-> Xor(loop.checksum, Chunk(data_bytes, loop.i))])

calculate_checksum(data) ==
    FoldChunks(DerivedBytes(data), [i |-> 0, checksum |-> 0]) % 65536

\* ------------------------------------------------------------------------
\* JSON values and the encoder
\* ------------------------------------------------------------------------

\* A JSON value: a number, a string (its bytes), the object {"c":n}, null,
\* or no value at all (the key is not in the object)
Num(n) == [k |-> "num", n |-> n]
Str(s) == [k |-> "str", s |-> s]
CObj(n) == [k |-> "cobj", n |-> n]
Null == [k |-> "null"]
Absent == [k |-> "absent"]

\* The keys a talkie message may hold, in the order the encoder writes them
\* (the JSON object keeps its keys sorted)
KeyOrder == <<"c", "f", "i", "m", "n", "t", "v">>

KeyByte(key) ==
    CASE key = "c" -> CH_c
      [] key = "f" -> JsonByte.f
      [] key = "i" -> JsonByte.i
      [] key = "m" -> JsonByte.m
      [] key = "n" -> JsonByte.n
      [] key = "t" -> JsonByte.t
      [] key = "v" -> JsonByte.v

\* Decimal digits of a natural number
RECURSIVE ToDigits(_)
ToDigits(n) ==
    IF n < 10 THEN <<CH_0 + n>>
    ELSE Append(ToDigits(n \div 10), CH_0 + (n % 10))

NullBytes == <<JsonByte.n, 117, 108, 108>>

EncodeValue(val) ==
    CASE val.k = "num" ->
            IF val.n < 0 THEN <<JsonByte.minus>> \o ToDigits(0 - val.n)
            ELSE ToDigits(val.n)
      [] val.k = "str" -> <<CH_QUOTE>> \o val.s \o <<CH_QUOTE>>
      [] val.k = "cobj" ->
            <<JsonByte.lbrace, CH_QUOTE, CH_c, CH_QUOTE, CH_COLON>>
                \o ToDigits(val.n) \o <<JsonByte.rbrace>>
      [] val.k = "null" -> NullBytes

EncodeMember(key, val) ==
    <<CH_QUOTE, KeyByte(key), CH_QUOTE, CH_COLON>> \o EncodeValue(val)

\* Members of message from the j-th key on, comma separated
RECURSIVE EncodeMembers(_, _, _)
EncodeMembers(message, j, first) ==
    IF j > Len(KeyOrder) THEN <<>>
    ELSE IF message[KeyOrder[j]].k = "absent"
         THEN EncodeMembers(message, j + 1, first)
    ELSE (IF first THEN <<>> ELSE <<JsonByte.comma>>)
            \o EncodeMember(KeyOrder[j], message[KeyOrder[j]])
            \o EncodeMembers(message, j + 1, FALSE)

\* encode(message): message.dump(), the compact text with sorted keys
encode(message) ==
    <<JsonByte.lbrace>> \o EncodeMembers(message, 1, TRUE) \o <<JsonByte.rbrace>>

\* Value of a run of decimal digits starting at 0-based index i
RECURSIVE DigitsValue(_, _, _)
DigitsValue(bytes, i, acc) ==
    IF i < Len(bytes) /\ IsDigit(At(bytes, i))
    THEN DigitsValue(bytes, i + 1, 10 * acc + (At(bytes, i) - CH_0))
    ELSE acc

\* json_message["c"] of a parsed compact text whose first member is c
ParsedC(text) == DigitsValue(text, 5, 0)

\* ------------------------------------------------------------------------
\* Time
\* ------------------------------------------------------------------------

UnitsPerMs == 1000 * UnitsPerUs

\* #define DRAG_DURATION_MS (1000.0/((120/60)*24)), in units
DRAG_DURATION_MS == (1000 * UnitsPerMs) \div ((120 \div 60) * 24)

\* Quotient rounded to the nearest integer, halves away from zero (std::round)
RoundDiv(num, den) ==
    IF num >= 0 THEN (2 * num + den) \div (2 * den)
    ELSE 0 - ((2 * (0 - num) + den) \div (2 * den))

\* std::round(x_ms * 1000): units to whole microseconds
RoundToUs(units) == RoundDiv(units, UnitsPerUs)

\* duration_cast<microseconds>: clock ticks to whole microseconds, truncated
CastToUs(ticks) == ticks \div TicksPerUs

\* message_id: static_cast<uint32_t>(time_milliseconds), the whole milliseconds
\* (every time of the model is below the 32-bit range)
message_id(time_milliseconds) == time_milliseconds \div UnitsPerMs

\* ------------------------------------------------------------------------
\* Stamping a message with its id and checksum
\* ------------------------------------------------------------------------

\* json_talkie_message after i, c = 0 and c = checksum have been assigned
StampMessage(message, time_milliseconds) ==
    LET with_i == [message EXCEPT !.i = Num(message_id(time_milliseconds))]
        with_c0 == [with_i EXCEPT !.c = Num(0)]
    IN  [with_c0 EXCEPT !.c = Num(calculate_checksum(encode(with_c0)))]

BpmNBytes == <<JsonByte.b, JsonByte.p, JsonByte.m, JsonByte.underscore, JsonByte.n>>
BpmDBytes == <<JsonByte.b, JsonByte.p, JsonByte.m, JsonByte.underscore, JsonByte.d>>

\* MessageCode::set
MessageCode_set == 3

\* One of sendTempo's two messages: property name and value set, c restamped
TempoMessage(json_talkie_message, name, value) ==
    LET base == [json_talkie_message EXCEPT
                    !.m = Num(MessageCode_set), !.i = Num(0),
                    !.n = Str(name), !.v = Num(value), !.c = Num(0)]
    IN  [base EXCEPT !.c = Num(calculate_checksum(encode(base)))]

\* The two texts with the denominator's first
TempoTextsDenominatorFirst(json_talkie_message, bpm_n, bpm_d) ==
    << encode(TempoMessage(json_talkie_message, BpmDBytes, bpm_d)),
       encode(TempoMessage(json_talkie_message, BpmNBytes, bpm_n)) >>

\* The texts sendTempo sends, in order
TempoTexts(json_talkie_message, bpm_n, bpm_d) ==
    << encode(TempoMessage(json_talkie_message, BpmNBytes, bpm_n)),
       encode(TempoMessage(json_talkie_message, BpmDBytes, bpm_d)) >>

\* ------------------------------------------------------------------------
\* The checksum function on its own: inputs and steps
\* ------------------------------------------------------------------------

\* All byte sequences over alphabet of length at most n
RECURSIVE SeqsUpTo(_, _)
SeqsUpTo(alphabet, n) ==
    IF n = 0 THEN {<<>>}
    ELSE LET shorter == SeqsUpTo(alphabet, n - 1)
         IN  shorter \cup {Append(q, b) : q \in shorter, b \in alphabet}

RawAlphabet == {0, 255, CH_0 + 1, JsonByte.x}

CPattern == <<CH_QUOTE, CH_c, CH_QUOTE, CH_COLON>>

\* Texts holding the pattern "c": once or twice, followed by digits or not
PatternTexts ==
    LET prefixes == {<<>>, <<JsonByte.lbrace>>}
        values == { <<CH_0 + 1, CH_0 + 2>>, <<CH_0>>, <<>>,
                    <<JsonByte.minus, CH_0 + 5>>,
                    <<CH_QUOTE, JsonByte.x, CH_QUOTE>>,
                    <<JsonByte.space, CH_0 + 7>> }
        suffixes == { <<>>, <<JsonByte.rbrace>>,
                      <<JsonByte.comma>> \o EncodeMember("v", CObj(5)) \o <<JsonByte.rbrace>>,
                      <<JsonByte.comma>> \o EncodeMember("v", Str(<<JsonByte.x>>)) \o <<JsonByte.rbrace>>,
                      <<JsonByte.comma>> \o CPattern \o <<CH_QUOTE, JsonByte.x, CH_QUOTE>> }
    IN  { pre \o CPattern \o val \o suf :
            pre \in prefixes, val \in values, suf \in suffixes }

RawTexts == SeqsUpTo(RawAlphabet, MaxRawLen) \cup PatternTexts

\* Messages an input entry may carry
CkMessages ==
    [ c : {Absent, Num(7), Str(<<JsonByte.x>>)},
      f : {Absent},
      i : {Absent, Num(5)},
      m : {Num(0)},
      n : {Absent, Str(<<JsonByte.x>>)},
      t : {Str(<<JsonByte.A>>), Num(1), Absent},
      v : {Absent, Num(120), Str(<<JsonByte.x>>), CObj(5)} ]

CkTimes == {0, 7, 1234 * UnitsPerMs + 1}

CkIdle == [op |-> "idle", text |-> <<>>, c0text |-> <<>>, sum |-> 0]

\* PlayList stamps an entry's message and encodes the pin's text; a receiver
\* then recomputes the checksum over that text
CkStampPin(message, time_milliseconds) ==
    LET stamped == StampMessage(message, time_milliseconds)
        zeroed == [stamped EXCEPT !.c = Num(0)]
    IN  /\ ck.op = "idle"
        /\ ck' = [op |-> "pin", text |-> encode(stamped), c0text |-> encode(zeroed),
                  sum |-> calculate_checksum(encode(stamped))]

\* sendTempo stamps and encodes one of its two messages
CkStampTempo(message, name, value) ==
    LET stamped == TempoMessage(message, name, value)
        zeroed == [stamped EXCEPT !.c = Num(0)]
    IN  /\ ck.op = "idle"
        /\ ck' = [op |-> "tempo", text |-> encode(stamped), c0text |-> encode(zeroed),
                  sum |-> calculate_checksum(encode(stamped))]

\* updateAddresses computes the checksum of a received text
CkReceived(text) ==
    /\ ck.op = "idle"
    /\ ck' = [op |-> "received", text |-> text, c0text |-> <<>>,
              sum |-> calculate_checksum(text)]

\* The result has been used; the next text can be taken
CkNextText ==
    /\ ck.op # "idle"
    /\ ck' = CkIdle

\* ------------------------------------------------------------------------
\* The player's inputs
\* ------------------------------------------------------------------------

NameA == <<JsonByte.A>>
NameB == <<JsonByte.B>>

INADDR_BROADCAST == "255.255.255.255"
PeerIPs == {"192.0.2.7", "192.0.2.9"}

\* PlayList's delay_ms argument, in units
delay_ms == 0 * UnitsPerMs

\* A message of an input entry addressed to target
EntryMessage(target) ==
    [c |-> Num(0), f |-> Absent, i |-> Num(0), m |-> Num(0),
     n |-> Absent, t |-> target, v |-> Num(1)]

TimedEntry(target, port, time) ==
    [kind |-> "message", port |-> port, time_ms |-> time,
     message |-> EntryMessage(target)]

TempoEntry(numerator, denominator) ==
    [kind |-> "tempo", bpm_numerator |-> numerator, bpm_denominator |-> denominator]

\* Entries a content array may hold: two names, one channel, a target of the
\* wrong type, no target, equal and different times and ports, a tempo
Entries ==
    { TimedEntry(Str(NameA), 5005, 0),
      TimedEntry(Str(NameA), 5006, 7),
      TimedEntry(Str(NameB), 5005, 0),
      TimedEntry(Num(1), 5005, 7),
      TimedEntry(Null, 5005, 0),
      TimedEntry(Absent, 5005, 7),
      TempoEntry(120, 1) }

\* An advertisement of a peer: its name in f and a checksum in c
Advert(name, c) ==
    [c |-> c, f |-> Str(name), i |-> Absent, m |-> Absent,
     n |-> Absent, t |-> Absent, v |-> Absent]

GoodC(name) == calculate_checksum(encode(Advert(name, Num(0))))

\* JSON documents peers send
PeerMessages ==
    { Advert(NameA, Num(GoodC(NameA))),
      Advert(NameA, Num((GoodC(NameA) + 1) % 65536)),
      Advert(NameB, Num(GoodC(NameB))) }

\* Datagrams the network may deliver: (sender ip, text)
Datagrams ==
    { <<"192.0.2.7", encode(Advert(NameA, Num(GoodC(NameA))))>>,
      <<"192.0.2.9", encode(Advert(NameA, Num(GoodC(NameA))))>>,
      <<"192.0.2.7", encode(Advert(NameA, Num((GoodC(NameA) + 1) % 65536)))>>,
      <<"192.0.2.7", <<JsonByte.x>> >> }

\* nlohmann::json::parse on a received text: the document whose compact text
\* it is, or a parse error
PeerTexts == { <<encode(doc), doc>> : doc \in PeerMessages }

ParseJson(text) ==
    IF \E pair \in PeerTexts : pair[1] = text
    THEN [ok |-> TRUE, doc |-> (CHOOSE pair \in PeerTexts : pair[1] = text)[2]]
    ELSE [ok |-> FALSE, doc |-> Null]

\* Clock readings the run may observe, in ticks: around the pins' targets,
\* and one later than any target by more than DRAG_DURATION_MS
LateInstant == 25000 * TicksPerUs + 1
ClockInstants ==
    { 0, 1, 2 * TicksPerUs, 2 * TicksPerUs + 1, LateInstant }

\* A reading of the clock: the last reading again, the next instant after it,
\* or the late instant.  Runs in which peers answer are runs of a clock that
\* stands still between deadlines from the first answer on.
ClockReads(last) ==
    LET later == {t \in ClockInstants : t > last}
    IN  IF counters.arrivals > 0 \/ counters.entries > MaxBusyEntries THEN {last}
        ELSE {last} \cup {t \in later : \A u \in later : t <= u}
                    \cup {t \in {LateInstant} : t >= last}

\* ------------------------------------------------------------------------
\* Devices and sending
\* ------------------------------------------------------------------------

\* TalkieDevice(socket, port): target_ip starts empty
NewDevice(kind, key, port) ==
    [kind |-> kind, key |-> key, target_ip |-> "", target_port |-> port,
     alive |-> TRUE]

\* A send that returned false: nothing was handed to sendto
NotSent(port, message) ==
    [mode |-> "none", ip |-> "", port |-> port, text |-> message]

\* TalkieSocket::sendToDevice: the datagram handed to sendto, none when the
\* socket is not initialised
sendToDevice(ip, port, message) ==
    IF ~socket_initialized THEN NotSent(port, message)
    ELSE [mode |-> "unicast", ip |-> ip, port |-> port, text |-> message]

\* TalkieSocket::sendBroadcast: the datagram handed to sendto, none when the
\* socket is not initialised
sendBroadcast(port, message) ==
    IF ~socket_initialized THEN NotSent(port, message)
    ELSE [mode |-> "broadcast", ip |-> INADDR_BROADCAST, port |-> port,
          text |-> message]

\* TalkieDevice::sendMessage on a live device: sendBroadcast when target_ip
\* is empty, sendToDevice otherwise
sendMessage(device, talkie_message) ==
    IF device.target_ip = ""
    THEN sendBroadcast(device.target_port, talkie_message)
    ELSE sendToDevice(device.target_ip, device.target_port, talkie_message)

\* sendMessage through a pointer to a destroyed device reads freed memory:
\* the old contents, or whatever has replaced them, or the read faults
DanglingSends(device, talkie_message) ==
    { sendMessage(device, talkie_message),
      [mode |-> "unicast", ip |-> "garbage", port |-> device.target_port,
       text |-> talkie_message],
      [mode |-> "fault", ip |-> "", port |-> 0, text |-> talkie_message] }

\* What a send through the pointer may hand to the socket
SendsOf(device, talkie_message) ==
    IF device.alive THEN {sendMessage(device, talkie_message)}
    ELSE DanglingSends(device, talkie_message)

\* A record of the sent log
SentRecord(datagram, what, seq, addr) ==
    [mode |-> datagram.mode, ip |-> datagram.ip, port |-> datagram.port,
     text |-> datagram.text, what |-> what, seq |-> seq, device |-> addr,
     ok |-> TRUE]

\* TalkieDevice::sendTempo on a new device at address addr: the log records
\* of its two sends
TempoSends(device, addr, json_talkie_message, bpm_n, bpm_d) ==
    LET texts == TempoTexts(json_talkie_message, bpm_n, bpm_d)
    IN  SelectSeq(<< SentRecord(sendMessage(device, texts[1]), "tempo", 0, addr),
                     SentRecord(sendMessage(device, texts[2]), "tempo", 0, addr) >>,
                  LAMBDA r : r.mode # "none")

\* ------------------------------------------------------------------------
\* PlayList: start, socket initialisation, ingestion
\* ------------------------------------------------------------------------

\* No socket: nothing enabled, nothing bound
NoSocket == [broadcast |-> FALSE, port |-> 0]

\* Nothing read, nothing received, nothing returned yet
NoCounters ==
    [entries |-> 0, files |-> 0, skipped |-> 0, arrivals |-> 0, ret |-> -1,
     timed |-> FALSE, failures |-> 0, calls |-> 0, messages |-> 0]

NoTiming ==
    [playing_start |-> 0, next_pin_time_us |-> 0, sleep_start |-> 0,
     microseconds |-> 0, elapsed |-> 0, iterations |-> 0]

NoReporting ==
    [total_validated |-> 0, total_incorrect |-> 0, total_drag |-> 0,
     total_delay |-> 0, maximum_delay |-> 0, minimum_delay |-> 0,
     average_delay |-> 0, sd_delay |-> 0]

\* The state when PlayList is entered: TalkieSocket talkie_socket(verbose)
PlayerInit ==
    /\ pc = "start"
    /\ platform \in {"linux", "win32"}
    /\ socket_initialized = FALSE
    /\ sockfd = -1
    /\ sockopt = NoSocket
    /\ open_fds = 0
    /\ inbox = <<>>
    /\ received_messages = <<>>
    /\ devices = <<>>
    /\ devices_by_name = <<>>
    /\ devices_by_channel = <<>>
    /\ total_updates = 0
    /\ bpm = [n |-> 0, d |-> 0]
    /\ talkieToProcess = <<>>
    /\ talkieProcessed = <<>>
    /\ play_reporting = NoReporting
    /\ now = 0
    /\ timing = NoTiming
    /\ sent = <<>>
    /\ counters = NoCounters

\* TalkieSocket::closeSocket
ClosedFds == IF sockfd # -1 THEN open_fds - 1 ELSE open_fds

\* A return with the code 1
ReturnOne ==
    /\ pc' = "returned"
    /\ counters' = [counters EXCEPT !.ret = 1]
    /\ open_fds' = ClosedFds
    /\ sockfd' = -1
    /\ sockopt' = NoSocket

\* PlayList returns 0; talkie_socket goes out of scope and closes the socket
Return ==
    /\ pc' = "returned"
    /\ counters' = [counters EXCEPT !.ret = 0]
    /\ open_fds' = ClosedFds
    /\ sockfd' = -1
    /\ sockopt' = NoSocket

\* An initialize() that returns after a failed bind without closing
initializeLeaking(failed) ==
    IF socket_initialized
    THEN [result |-> TRUE, socket_initialized |-> TRUE, sockfd |-> sockfd,
          sockopt |-> sockopt, open_fds |-> open_fds]
    ELSE IF failed \in {"socket", "setsockopt"}
    THEN [result |-> FALSE, socket_initialized |-> FALSE, sockfd |-> -1,
          sockopt |-> NoSocket, open_fds |-> open_fds]
    ELSE IF failed = "bind"
    THEN [result |-> FALSE, socket_initialized |-> FALSE, sockfd |-> -1,
          sockopt |-> NoSocket, open_fds |-> open_fds + 1]
    ELSE [result |-> TRUE, socket_initialized |-> TRUE, sockfd |-> 3 + open_fds,
          sockopt |-> [broadcast |-> TRUE, port |-> 5005],
          open_fds |-> open_fds + 1]

\* TalkieSocket::initialize: its result and the socket's fields after it.
\* failed names the step that fails, "none" if none does.  An initialised
\* socket is left alone; socket() gives the lowest free descriptor; a
\* failure of setsockopt or bind closes the descriptor and resets sockfd.
initialize(failed) ==
    IF socket_initialized
    THEN [result |-> TRUE, socket_initialized |-> TRUE, sockfd |-> sockfd,
          sockopt |-> sockopt, open_fds |-> open_fds]
    ELSE IF failed = "socket"
    THEN [result |-> FALSE, socket_initialized |-> FALSE, sockfd |-> -1,
          sockopt |-> NoSocket, open_fds |-> open_fds]
    ELSE IF failed \in {"setsockopt", "bind"}
    THEN [result |-> FALSE, socket_initialized |-> FALSE, sockfd |-> -1,
          sockopt |-> NoSocket, open_fds |-> (open_fds + 1) - 1]
    ELSE [result |-> TRUE, socket_initialized |-> TRUE, sockfd |-> 3 + open_fds,
          sockopt |-> [broadcast |-> TRUE, port |-> 5005],
          open_fds |-> open_fds + 1]

\* A start that goes on to the input whether initialize() failed or not
InitializeIgnoringFailure(failed) ==
    /\ pc = "start"
    /\ ~socket_initialized
    /\ LET done == initialize(failed)
       IN  /\ socket_initialized' = done.socket_initialized
           /\ sockfd' = done.sockfd
           /\ sockopt' = done.sockopt
           /\ open_fds' = done.open_fds
    /\ pc' = "files"
    /\ UNCHANGED <<midiVars, ck, platform, inbox, received_messages, devices,
                   devices_by_name, devices_by_channel, total_updates, bpm,
                   talkieToProcess, talkieProcessed, play_reporting, now,
                   timing, sent, counters>>

\* if (talkie_socket.initialize()) in PlayList.  On failure PlayList skips
\* to its report and returns.
Initialize(failed) ==
    /\ pc = "start"
    /\ ~socket_initialized
    /\ LET done == initialize(failed)
       IN  /\ socket_initialized' = done.socket_initialized
           /\ sockfd' = done.sockfd
           /\ sockopt' = done.sockopt
           /\ open_fds' = done.open_fds
           /\ IF done.result
              THEN /\ pc' = "files"
                   /\ UNCHANGED counters
              ELSE /\ pc' = "returned"
                   /\ counters' = [counters EXCEPT !.ret = 0]
    /\ UNCHANGED <<midiVars, ck, platform, inbox, received_messages, devices,
                   devices_by_name, devices_by_channel, total_updates, bpm,
                   talkieToProcess, talkieProcessed, play_reporting, now,
                   timing, sent>>

\* A file loop that counts a skipped element as an incorrect message
NextFileCountingSkipped(accepted) ==
    /\ pc = "files"
    /\ counters.files < MaxFiles
    /\ counters' = [counters EXCEPT !.files = @ + 1,
                                    !.skipped = IF accepted THEN @ ELSE @ + 1,
                                    !.timed = FALSE]
    /\ IF accepted
       THEN /\ pc' = "entries"
            /\ devices_by_channel' = <<>>
            /\ bpm' = [n |-> 0, d |-> 0]
            /\ UNCHANGED play_reporting
       ELSE /\ play_reporting' = [play_reporting EXCEPT !.total_incorrect = @ + 1]
            /\ UNCHANGED <<pc, devices_by_channel, bpm>>
    /\ UNCHANGED <<midiVars, ck, platform, socket_initialized, sockfd, sockopt, open_fds, inbox,
                   received_messages, devices, devices_by_name,
                   total_updates, talkieToProcess, talkieProcessed,
                   now, timing, sent>>

\* The file loop takes the next top-level element.  One of the wrong type or
\* url is skipped; otherwise its content is walked with a fresh
\* devices_by_channel and bpm_n = bpm_d = 0.
NextFile(accepted) ==
    /\ pc = "files"
    /\ counters.files < MaxFiles
    /\ counters' = [counters EXCEPT !.files = @ + 1,
                                    !.skipped = IF accepted THEN @ ELSE @ + 1,
                                    !.timed = FALSE]
    /\ IF accepted
       THEN /\ pc' = "entries"
            /\ devices_by_channel' = <<>>
            /\ bpm' = [n |-> 0, d |-> 0]
       ELSE UNCHANGED <<pc, devices_by_channel, bpm>>
    /\ UNCHANGED <<midiVars, ck, platform, socket_initialized, sockfd, sockopt, open_fds, inbox,
                   received_messages, devices, devices_by_name,
                   total_updates, talkieToProcess, talkieProcessed,
                   play_reporting, now, timing, sent>>

\* TalkiePin(time_milliseconds, talkie_device, talkie_message); seq is the
\* pin's place in the order of ingestion
NewPin(time_milliseconds, addr, talkie_message, seq) ==
    [time_ms |-> time_milliseconds, talkie_device |-> addr,
     talkie_message |-> talkie_message, delay_time_ms |-> 0 - UnitsPerMs,
     seq |-> seq]

\* How the content loop takes the t of a stamped message: is_string(), then
\* is_number(), else the entry is dropped
TargetKind(t) ==
    IF t.k = "str" THEN "name" ELSE IF t.k = "num" THEN "channel" ELSE "none"

\* An exception that no handler of PlayList catches leaves PlayList; the
\* socket is closed if the caller's handling unwinds the stack
Throw ==
    /\ pc' = "threw"
    /\ \E unwound \in BOOLEAN :
          /\ open_fds' = IF unwound THEN ClosedFds ELSE open_fds
          /\ sockfd' = IF unwound THEN -1 ELSE sockfd
          /\ sockopt' = IF unwound THEN NoSocket ELSE sockopt

\* The file loop takes a top-level element that is not an object:
\* jsonData["filetype"] throws a type_error, and only parse_error is caught
BadElement ==
    /\ pc = "files"
    /\ counters.files < MaxFiles
    /\ counters' = [counters EXCEPT !.files = @ + 1]
    /\ Throw
    /\ UNCHANGED <<midiVars, ck, platform, socket_initialized, inbox, received_messages,
                   devices, devices_by_name, devices_by_channel,
                   total_updates, bpm, talkieToProcess, talkieProcessed,
                   play_reporting, now, timing, sent>>

\* The content loop takes an entry whose time_ms is not a number: the
\* conversion to double throws a type_error, and only parse_error is caught
IngestMalformed ==
    /\ pc = "entries"
    /\ counters.entries < MaxEntries
    /\ counters' = [counters EXCEPT !.entries = @ + 1, !.messages = @ + 1]
    /\ Throw
    /\ UNCHANGED <<midiVars, ck, platform, socket_initialized, inbox, received_messages,
                   devices, devices_by_name, devices_by_channel,
                   total_updates, bpm, talkieToProcess, talkieProcessed,
                   play_reporting, now, timing, sent>>

\* A counting that leaves total_incorrect alone
CountedValidOnly(reporting, validated) ==
    IF validated THEN [reporting EXCEPT !.total_validated = @ + 1]
    ELSE reporting

\* The counters after a timed entry: total_incorrect++ on entry, taken back
\* with total_validated++ once the pin has been appended
Counted(reporting, validated) ==
    IF validated THEN [reporting EXCEPT !.total_validated = @ + 1]
    ELSE [reporting EXCEPT !.total_incorrect = @ + 1]

\* The body of the content loop for one entry
IngestEntry(jsonElement) ==
    /\ pc = "entries"
    /\ counters.entries < MaxEntries
    /\ counters' = [counters EXCEPT
                        !.entries = @ + 1,
                        !.timed = @ \/ jsonElement.kind = "message",
                        !.messages = IF jsonElement.kind = "message"
                                     THEN @ + 1 ELSE @]
    /\ IF jsonElement.kind = "message"
       THEN LET time_milliseconds == jsonElement.time_ms + delay_ms
                target_port == jsonElement.port
                json_talkie_message ==
                    StampMessage(jsonElement.message, time_milliseconds)
                t == json_talkie_message.t
                byName == TargetKind(t) = "name"
                byChannel == TargetKind(t) = "channel"
                key == IF byName THEN t.s ELSE IF byChannel THEN t.n % 256 ELSE 0
                map == IF byName THEN devices_by_name ELSE devices_by_channel
                found == key \in DOMAIN map
                addr == IF found THEN map[key] ELSE Len(devices) + 1
                device == NewDevice(IF byName THEN "name" ELSE "channel",
                                    key, target_port)
            IN  IF byName \/ byChannel
                THEN /\ devices' = IF found THEN devices
                                   ELSE Append(devices, device)
                     /\ devices_by_name' =
                            IF byName /\ ~found
                            THEN devices_by_name @@ (key :> addr)
                            ELSE devices_by_name
                     /\ devices_by_channel' =
                            IF byChannel /\ ~found
                            THEN devices_by_channel @@ (key :> addr)
                            ELSE devices_by_channel
                     /\ sent' = IF ~found /\ bpm.d # 0
                                THEN sent \o TempoSends(device, addr,
                                        jsonElement.message, bpm.n, bpm.d)
                                ELSE sent
                     /\ talkieToProcess' = Append(talkieToProcess,
                            NewPin(time_milliseconds, addr,
                                   encode(json_talkie_message),
                                   Len(talkieToProcess) + 1))
                     /\ play_reporting' = Counted(play_reporting, TRUE)
                     /\ UNCHANGED bpm
                ELSE /\ play_reporting' = Counted(play_reporting, FALSE)
                     /\ UNCHANGED <<devices, devices_by_name,
                                    devices_by_channel, sent,
                                    talkieToProcess, bpm>>
       ELSE /\ bpm' = IF bpm.d = 0 /\ jsonElement.kind = "tempo"
                      THEN [n |-> jsonElement.bpm_numerator,
                            d |-> jsonElement.bpm_denominator]
                      ELSE bpm
            /\ UNCHANGED <<devices, devices_by_name, devices_by_channel,
                           sent, talkieToProcess, play_reporting>>
    /\ UNCHANGED <<midiVars, ck, pc, platform, socket_initialized, sockfd, sockopt, open_fds,
                   inbox, received_messages, total_updates, talkieProcessed,
                   now, timing>>

\* The content loop ends: devices_by_channel goes out of scope and every
\* device it holds is destroyed
EndFile ==
    /\ pc = "entries"
    /\ pc' = "files"
    /\ devices' = [a \in DOMAIN devices |->
                      IF \E ch \in DOMAIN devices_by_channel :
                            devices_by_channel[ch] = a
                      THEN [devices[a] EXCEPT !.alive = FALSE]
                      ELSE devices[a]]
    /\ devices_by_channel' = <<>>
    /\ counters' = [counters EXCEPT !.timed = FALSE]
    /\ UNCHANGED <<midiVars, ck, platform, socket_initialized, sockfd, sockopt, open_fds, inbox,
                   received_messages, devices_by_name, total_updates, bpm,
                   talkieToProcess, talkieProcessed, play_reporting, now,
                   timing, sent>>

\* ------------------------------------------------------------------------
\* Sorting
\* ------------------------------------------------------------------------

\* An insertion that places pin before the elements of its own time
RECURSIVE InsertBeforeEqual(_, _)
InsertBeforeEqual(sorted, pin) ==
    IF sorted = <<>> THEN <<pin>>
    ELSE IF pin.time_ms <= Head(sorted).time_ms THEN <<pin>> \o sorted
    ELSE <<Head(sorted)>> \o InsertBeforeEqual(Tail(sorted), pin)

\* pin placed into a list sorted by a.getTime() < b.getTime(): after every
\* element whose time is not greater than its own
RECURSIVE InsertByTime(_, _)
InsertByTime(sorted, pin) ==
    IF sorted = <<>> THEN <<pin>>
    ELSE IF pin.time_ms < Head(sorted).time_ms THEN <<pin>> \o sorted
    ELSE <<Head(sorted)>> \o InsertByTime(Tail(sorted), pin)

\* A sort that keeps one pin of each time, as a container keyed by time does
RECURSIVE SortByTimeUnique(_)
SortByTimeUnique(list) ==
    IF list = <<>> THEN <<>>
    ELSE LET rest == SortByTimeUnique(SubSeq(list, 1, Len(list) - 1))
             pin == list[Len(list)]
         IN  IF \E k \in DOMAIN rest : rest[k].time_ms = pin.time_ms
             THEN rest
             ELSE InsertByTime(rest, pin)

\* talkieToProcess.sort(...): std::list::sort is stable
RECURSIVE SortByTime(_)
SortByTime(list) ==
    IF list = <<>> THEN <<>>
    ELSE InsertByTime(SortByTime(SubSeq(list, 1, Len(list) - 1)), list[Len(list)])

\* ------------------------------------------------------------------------
\* Peer discovery
\* ------------------------------------------------------------------------

\* A loop that binds a device to the sender of every valid advertisement,
\* whether the device is resolved already or not
RECURSIVE HandleMessagesRebinding(_, _, _, _, _)
HandleMessagesRebinding(batch, j, devs, updates, updated_addresses) ==
    IF j > Len(batch)
    THEN [devices |-> devs, total_updates |-> updates, result |-> updated_addresses]
    ELSE
      LET parsed == ParseJson(batch[j][2])
      IN
      IF ~parsed.ok \/ parsed.doc.f.k # "str" \/ parsed.doc.c.k # "num"
      THEN [devices |-> devs, total_updates |-> updates, result |-> FALSE]
      ELSE IF /\ parsed.doc.f.s \in DOMAIN devices_by_name
              /\ parsed.doc.c.n % 65536 = calculate_checksum(batch[j][2])
           THEN HandleMessagesRebinding(batch, j + 1,
                    [devs EXCEPT ![devices_by_name[parsed.doc.f.s]].target_ip = batch[j][1]],
                    updates + 1, TRUE)
      ELSE HandleMessagesRebinding(batch, j + 1, devs, updates, updated_addresses)

\* A loop that binds an unresolved device to the sender of an advertisement
\* of its name without comparing checksums
RECURSIVE HandleMessagesUnchecked(_, _, _, _, _)
HandleMessagesUnchecked(batch, j, devs, updates, updated_addresses) ==
    IF j > Len(batch)
    THEN [devices |-> devs, total_updates |-> updates, result |-> updated_addresses]
    ELSE
      LET parsed == ParseJson(batch[j][2])
      IN
      IF ~parsed.ok \/ parsed.doc.f.k # "str" \/ parsed.doc.c.k # "num"
      THEN [devices |-> devs, total_updates |-> updates, result |-> FALSE]
      ELSE IF /\ parsed.doc.f.s \in DOMAIN devices_by_name
              /\ devs[devices_by_name[parsed.doc.f.s]].target_ip = ""
           THEN HandleMessagesUnchecked(batch, j + 1,
                    [devs EXCEPT ![devices_by_name[parsed.doc.f.s]].target_ip = batch[j][1]],
                    updates + 1, TRUE)
      ELSE HandleMessagesUnchecked(batch, j + 1, devs, updates, updated_addresses)

\* The loop of updateAddresses over received_messages from the j-th on; an
\* exception (parse error, f or c of the wrong type) ends it with false
RECURSIVE HandleMessages(_, _, _, _, _)
HandleMessages(batch, j, devs, updates, updated_addresses) ==
    LET threw == [devices |-> devs, total_updates |-> updates, result |-> FALSE]
    IN
    IF j > Len(batch)
    THEN [devices |-> devs, total_updates |-> updates, result |-> updated_addresses]
    ELSE
      LET device_address == batch[j][1]
          json_string == batch[j][2]
          parsed == ParseJson(json_string)
      IN
      IF ~parsed.ok THEN threw
      ELSE IF parsed.doc.f.k # "str" THEN threw
      ELSE IF parsed.doc.f.s \notin DOMAIN devices_by_name
           THEN HandleMessages(batch, j + 1, devs, updates, updated_addresses)
      ELSE
        LET addr == devices_by_name[parsed.doc.f.s]
        IN
        IF devs[addr].target_ip # ""
        THEN HandleMessages(batch, j + 1, devs, updates, updated_addresses)
        ELSE IF parsed.doc.c.k # "num" THEN threw
        ELSE IF parsed.doc.c.n % 65536 = calculate_checksum(json_string)
             THEN HandleMessages(batch, j + 1,
                    [devs EXCEPT ![addr].target_ip = device_address],
                    updates + 1, TRUE)
        ELSE HandleMessages(batch, j + 1, devs, updates, updated_addresses)

\* The rest of updateAddresses once receiveMessages has returned batch
Discover(batch) ==
    LET done == HandleMessages(batch, 1, devices, total_updates, FALSE)
    IN  /\ received_messages' = batch
        /\ devices' = done.devices
        /\ total_updates' = done.total_updates

\* ------------------------------------------------------------------------
\* The play loop
\* ------------------------------------------------------------------------

\* Readings playing_start may take: the clock counts from the start of play
StartInstants == {t \in ClockInstants : t <= 0}

\* After the content of the last file: an empty list is reported and
\* PlayList returns; otherwise the list is sorted and playing starts
EndInput ==
    /\ pc = "files"
    /\ IF Len(talkieToProcess) = 0
       THEN /\ Return
            /\ UNCHANGED <<talkieToProcess, now, timing>>
       ELSE /\ talkieToProcess' = SortByTime(talkieToProcess)
            /\ \E t \in StartInstants :
                  /\ t >= now
                  /\ now' = t
                  /\ timing' = [NoTiming EXCEPT !.playing_start = t]
            /\ pc' = "pin"
            /\ UNCHANGED <<counters, open_fds, sockfd, sockopt>>
    /\ UNCHANGED <<midiVars, ck, platform, socket_initialized, inbox,
                   received_messages, devices, devices_by_name,
                   devices_by_channel, total_updates, bpm, talkieProcessed,
                   play_reporting, sent>>

\* Top of the while loop: the front pin's target, the time to sleep, and the
\* entry into highResolutionSleep (its start reading)
PinBegin ==
    /\ pc = "pin"
    /\ Len(talkieToProcess) > 0
    /\ LET talkie_pin == Head(talkieToProcess)
           next_pin_time_us ==
               RoundToUs(talkie_pin.time_ms + play_reporting.total_drag)
       IN  \E playing_now \in ClockReads(now) :
           \E start \in ClockReads(playing_now) :
             LET elapsed_time_us == CastToUs(playing_now - timing.playing_start)
                 sleep_time_us ==
                     IF next_pin_time_us > elapsed_time_us
                     THEN next_pin_time_us - elapsed_time_us ELSE 0
             IN  /\ now' = start
                 /\ timing' = [timing EXCEPT
                                 !.next_pin_time_us = next_pin_time_us,
                                 !.sleep_start = start,
                                 !.microseconds = sleep_time_us,
                                 !.elapsed = 0,
                                 !.iterations = 0]
    /\ pc' = "sleep"
    /\ UNCHANGED <<midiVars, ck, platform, socket_initialized, sockfd, sockopt, open_fds, inbox,
                   received_messages, devices, devices_by_name,
                   devices_by_channel, total_updates, bpm, talkieToProcess,
                   talkieProcessed, play_reporting, sent, counters>>

\* Whether highResolutionSleep calls updateAddresses in this iteration
TickWanted ==
    \/ platform = "linux"
    \/ total_updates < Cardinality(DOMAIN devices_by_name)

\* TalkieSocket::hasMessages: select() with a zero timeout
hasMessages == socket_initialized /\ sockfd # -1 /\ Len(inbox) > 0

\* An iteration that leaves the sleep loop whatever time has elapsed
SleepTailNoWait(elapsed, reading) ==
    /\ now' = reading
    /\ pc' = "pluck"
    /\ timing' = [timing EXCEPT !.elapsed = 0, !.iterations = 1]

\* The end of an iteration of the sleep loop: a 100 us sleep when more than
\* 1 ms is left, then the loop test on the elapsed time read at its top
SleepTail(elapsed, reading) ==
    /\ IF elapsed < (timing.microseconds - 1000) * TicksPerUs
       THEN now' \in {reading + 100 * TicksPerUs}
                     \cup {t \in ClockInstants : t >= reading + 100 * TicksPerUs}
       ELSE now' = reading
    /\ pc' = IF elapsed < timing.microseconds * TicksPerUs THEN "sleep" ELSE "pluck"
    /\ timing' = [timing EXCEPT !.elapsed = 0, !.iterations = 1]

\* One iteration of the sleep loop.  A discovery tick that finds the socket
\* readable calls receiveMessages: its first recvfrom takes a datagram and
\* drops it, the recvfrom in the loop takes the next one and waits when there
\* is none, and the loop goes on while hasMessages().
SleepIter ==
    /\ pc = "sleep"
    /\ \E reading \in ClockReads(now)
            \cup {timing.sleep_start + timing.microseconds * TicksPerUs} :
         /\ reading >= now
         /\ LET elapsed == reading - timing.sleep_start
            IN  IF TickWanted /\ hasMessages
                THEN IF Len(inbox) = 1
                     THEN /\ inbox' = <<>>
                          /\ received_messages' = <<>>
                          /\ pc' = "recv_blocked"
                          /\ now' = reading
                          /\ timing' = [timing EXCEPT !.elapsed = elapsed]
                          /\ UNCHANGED <<devices, total_updates>>
                     ELSE /\ inbox' = <<>>
                          /\ Discover(Tail(inbox))
                          /\ SleepTail(elapsed, reading)
                ELSE /\ SleepTail(elapsed, reading)
                     /\ UNCHANGED <<inbox, received_messages, devices,
                                    total_updates>>
    /\ UNCHANGED <<midiVars, ck, platform, socket_initialized, sockfd, sockopt, open_fds,
                   devices_by_name, devices_by_channel, bpm, talkieToProcess,
                   talkieProcessed, play_reporting, sent, counters>>

\* A datagram has arrived while recvfrom was waiting: the receive loop takes
\* it and whatever else is queued, and the sleep iteration goes on
RecvResume ==
    /\ pc = "recv_blocked"
    /\ Len(inbox) > 0
    /\ inbox' = <<>>
    /\ Discover(inbox)
    /\ SleepTail(timing.elapsed, now)
    /\ UNCHANGED <<midiVars, ck, platform, socket_initialized, sockfd, sockopt, open_fds,
                   devices_by_name, devices_by_channel, bpm, talkieToProcess,
                   talkieProcessed, play_reporting, sent, counters>>

\* What sendto may return for a datagram: the transport may refuse it.
\* Runs in which a send is refused are runs in which no peer has answered.
SendtoResults(datagram) ==
    IF \/ datagram.mode \in {"none", "fault"}
       \/ counters.failures >= MaxSendFailures
       \/ counters.arrivals > 0
    THEN {TRUE}
    ELSE BOOLEAN

\* A loop that gives up the remaining pins when a send was refused
WhileAfterChecked(ok, remaining) ==
    IF ok /\ remaining > 0 THEN "pin" ELSE "stats"

\* while (talkieToProcess.size() > 0) after an emission: the result of the
\* send is not looked at (pluckTooth, sendToDevice and sendBroadcast drop it)
WhileAfter(ok, remaining) ==
    IF remaining > 0 THEN "pin" ELSE "stats"

\* A drag that takes the whole delay
DragAfterWholeDelay(total_drag, delay_time_ms) ==
    IF delay_time_ms > DRAG_DURATION_MS
    THEN total_drag + delay_time_ms
    ELSE total_drag

\* if (delay_time_ms > DRAG_DURATION_MS) total_drag += delay_time_ms -
\* DRAG_DURATION_MS
DragAfter(total_drag, delay_time_ms) ==
    IF delay_time_ms > DRAG_DURATION_MS
    THEN total_drag + (delay_time_ms - DRAG_DURATION_MS)
    ELSE total_drag

\* A setter that also restamps the pin with the delay
setDelayTimeRestamping(talkie_pin, delay_time_ms) ==
    [talkie_pin EXCEPT !.delay_time_ms = delay_time_ms,
                       !.time_ms = @ + delay_time_ms]

\* TalkiePin::setDelayTime: the only member of a pin that is not const
setDelayTime(talkie_pin, delay_time_ms) ==
    [talkie_pin EXCEPT !.delay_time_ms = delay_time_ms]

\* After the sleep: the pluck reading, pluckTooth, the delay, the move to the
\* processed list and the drag
Pluck ==
    /\ pc = "pluck"
    /\ LET talkie_pin == Head(talkieToProcess)
           addr == talkie_pin.talkie_device
       IN  \E reading \in ClockReads(now) :
           \E datagram \in SendsOf(devices[addr], talkie_pin.talkie_message) :
           \E ok \in SendtoResults(datagram) :
             LET pluck_time_us == CastToUs(reading - timing.playing_start)
                 delay_time_ms ==
                     (pluck_time_us - timing.next_pin_time_us) * UnitsPerUs
             IN  /\ now' = reading
                 /\ counters' = [counters EXCEPT
                                    !.failures = IF ok THEN @ ELSE @ + 1]
                 /\ IF datagram.mode = "fault"
                    THEN /\ pc' = "crashed"
                         /\ UNCHANGED <<sent, talkieToProcess,
                                        talkieProcessed, play_reporting>>
                    ELSE /\ sent' = IF datagram.mode = "none" THEN sent
                                    ELSE Append(sent,
                                [SentRecord(datagram, "pin", talkie_pin.seq, addr)
                                    EXCEPT !.ok = ok])
                         /\ talkieProcessed' = Append(talkieProcessed,
                                setDelayTime(talkie_pin, delay_time_ms))
                         /\ talkieToProcess' = Tail(talkieToProcess)
                         /\ play_reporting' =
                                [play_reporting EXCEPT !.total_drag =
                                    DragAfter(@, delay_time_ms)]
                         /\ pc' = WhileAfter(ok, Len(talkieToProcess) - 1)
    /\ timing' = [NoTiming EXCEPT !.playing_start = timing.playing_start]
    /\ UNCHANGED <<midiVars, ck, platform, socket_initialized, sockfd, sockopt, open_fds, inbox,
                   received_messages, devices, devices_by_name,
                   devices_by_channel, total_updates, bpm>>

\* ------------------------------------------------------------------------
\* Statistics and return
\* ------------------------------------------------------------------------

RECURSIVE SumDelays(_)
SumDelays(list) ==
    IF list = <<>> THEN 0
    ELSE Head(list).delay_time_ms + SumDelays(Tail(list))

Max2(a, b) == IF a > b THEN a ELSE b
Min2(a, b) == IF a < b THEN a ELSE b

\* std::max folded over the list, from start
RECURSIVE MaxDelays(_, _)
MaxDelays(list, start) ==
    IF list = <<>> THEN start
    ELSE MaxDelays(Tail(list), Max2(start, Head(list).delay_time_ms))

\* std::min folded over the list, from start
RECURSIVE MinDelays(_, _)
MinDelays(list, start) ==
    IF list = <<>> THEN start
    ELSE MinDelays(Tail(list), Min2(start, Head(list).delay_time_ms))

\* The sum of the squared distances of the delays from average, the
\* distances taken to the whole microsecond
RECURSIVE SumSquares(_, _)
SumSquares(list, average) ==
    IF list = <<>> THEN 0
    ELSE LET distance == RoundDiv(Head(list).delay_time_ms - average, UnitsPerUs)
         IN  distance * distance + SumSquares(Tail(list), average)

\* The largest root in lo..hi whose square is not above x
RECURSIVE RootBetween(_, _, _)
RootBetween(x, lo, hi) ==
    IF lo >= hi THEN lo
    ELSE LET mid == (lo + hi + 1) \div 2
         IN  IF mid * mid <= x THEN RootBetween(x, mid, hi)
             ELSE RootBetween(x, lo, mid - 1)

\* std::sqrt, to the whole number below
Sqrt(x) == RootBetween(x, 0, 46340)

\* A statistics block whose minimum is folded from its initial 0.0
StatisticsMinimumFromZero(reporting, processed) ==
    IF Len(processed) > 0
    THEN LET total == reporting.total_delay + SumDelays(processed)
         IN  [reporting EXCEPT
                !.total_delay = total,
                !.maximum_delay = MaxDelays(processed, reporting.maximum_delay),
                !.minimum_delay = MinDelays(processed, reporting.minimum_delay),
                !.average_delay = RoundDiv(total, Len(processed))]
    ELSE reporting

\* The statistics block over talkieProcessed
Statistics(reporting, processed) ==
    IF Len(processed) > 0
    THEN LET total == reporting.total_delay + SumDelays(processed)
             maximum == MaxDelays(processed, reporting.maximum_delay)
         IN  [reporting EXCEPT
                !.total_delay = total,
                !.maximum_delay = maximum,
                !.minimum_delay = MinDelays(processed, maximum),
                !.average_delay = RoundDiv(total, Len(processed)),
                !.sd_delay = UnitsPerUs *
                    Sqrt((reporting.sd_delay
                          + SumSquares(processed, RoundDiv(total, Len(processed))))
                         \div Len(processed))]
    ELSE reporting

\* The play loop has ended: statistics, report, return 0
Finish ==
    /\ pc = "stats"
    /\ play_reporting' = Statistics(play_reporting, talkieProcessed)
    /\ Return
    /\ UNCHANGED <<midiVars, ck, platform, socket_initialized, inbox,
                   received_messages, devices, devices_by_name,
                   devices_by_channel, total_updates, bpm, talkieToProcess,
                   talkieProcessed, now, timing, sent>>

\* ------------------------------------------------------------------------
\* The network
\* ------------------------------------------------------------------------

\* A peer's datagram reaches the socket.  The socket's queue is read only by
\* the discovery ticks of the sleep loop, so arrivals are taken where they
\* are first seen: before a sleep's first tick, or while recvfrom waits.
\* The first answer comes within the first microsecond of the clock.
Arrive(datagram) ==
    /\ \/ pc = "sleep" /\ timing.iterations = 0
       \/ pc = "recv_blocked"
    /\ sockfd # -1
    /\ counters.arrivals < MaxArrivals
    /\ counters.entries <= MaxBusyEntries
    /\ Len(inbox) < MaxQueue
    /\ counters.arrivals > 0 \/ now < TicksPerUs
    /\ counters.failures = 0
    /\ counters' = [counters EXCEPT !.arrivals = @ + 1]
    /\ inbox' = Append(inbox, datagram)
    /\ UNCHANGED <<midiVars, ck, pc, platform, socket_initialized, sockfd, sockopt, open_fds,
                   received_messages, devices, devices_by_name,
                   devices_by_channel, total_updates, bpm, talkieToProcess,
                   talkieProcessed, play_reporting, now, timing, sent>>

\* ------------------------------------------------------------------------
\* The MIDI player: PlayList of src/src/JsonTalkiePlayer.cpp
\* ------------------------------------------------------------------------

action_note_off == 128
action_note_on == 144
action_key_pressure == 160
action_control_change == 176
action_program_change == 192
action_channel_pressure == 208
action_pitch_bend == 224
action_system == 240
system_sysex_start == 240
system_song_pointer == 242
system_timing_clock == 248
system_clock_start == 250
system_clock_continue == 251
system_clock_stop == 252

\* The clock messages: Timing Clock, Start, Continue, Stop
ClockStatuses ==
    {system_timing_clock, system_clock_start, system_clock_continue,
     system_clock_stop}

\* MidiPin::getStatusByte, getChannel, getAction
getStatusByte(pin) == pin.midi_message[1]
getChannel(pin) == pin.midi_message[1] % 16
getAction(pin) == pin.midi_message[1] - (pin.midi_message[1] % 16)

\* MidiPin::getDataByte(nth_byte)
getDataByte(pin, nth_byte) == pin.midi_message[nth_byte + 1]

\* MidiPin::setStatusByte
setStatusByte(pin, status_byte) == [pin EXCEPT !.midi_message[1] = status_byte]

\* MidiPin::setDataByte
setDataByte(pin, nth_byte, data_byte) ==
    [pin EXCEPT !.midi_message[nth_byte + 1] = data_byte]

\* The MidiPin constructor; id stands for the address of the object, level
\* is 1 by default
NewMidiPin(id, time_milliseconds, midi_device, json_midi_message, priority) ==
    [id |-> id, time_ms |-> time_milliseconds, priority |-> priority,
     midi_device |-> midi_device, midi_message |-> json_midi_message,
     level |-> 1]

\* A MidiDevice as constructed: port closed, nothing tracked
NewMidiDevice ==
    [opened_port |-> FALSE, last_pin_clock |-> 0, last_pin_song_pointer |-> 0,
     last_pin_note_on |-> <<>>, last_pin_byte_8 |-> <<>>,
     last_pin_byte_16 |-> <<>>]

\* The position of the pin at address id in list
IndexOfId(list, id) == CHOOSE k \in DOMAIN list : list[k].id = id

\* list with the pin at address id replaced by pin
PutById(list, id, pin) ==
    [k \in DOMAIN list |-> IF list[k].id = id THEN pin ELSE list[k]]

\* std::list::erase at position i
EraseAt(list, i) == SubSeq(list, 1, i - 1) \o SubSeq(list, i + 1, Len(list))

\* std::list::insert before position i
InsertAt(list, i, pin) ==
    SubSeq(list, 1, i - 1) \o <<pin>> \o SubSeq(list, i, Len(list))

\* dict[key] = value on an unordered_map
MapPut(dict, key, value) ==
    [x \in DOMAIN dict \cup {key} |-> IF x = key THEN value ELSE dict[x]]

\* The priority the content loop gives to a message, by its status byte and
\* first data byte
MidiPriority(json_midi_message) ==
    LET status_byte == json_midi_message[1]
        low == status_byte % 16
        message_action == status_byte - low
    IN  IF message_action = action_system
        THEN IF status_byte \in ClockStatuses THEN 48 + low
             ELSE IF status_byte = system_song_pointer THEN 176 + low
             ELSE IF status_byte = system_sysex_start THEN 240 + low
             ELSE 208 + low
        ELSE IF message_action \in {action_note_off, action_note_on}
             THEN 80 + low
        ELSE IF message_action = action_control_change
             THEN IF json_midi_message[2] = 1 THEN 96 + low
                  ELSE IF json_midi_message[2] \in {0, 32} THEN low
                  ELSE IF json_midi_message[2] = 123 THEN 144 + low
                  ELSE 32 + low
        ELSE IF message_action = action_pitch_bend THEN 112 + low
        ELSE IF message_action = action_key_pressure THEN 128 + low
        ELSE IF message_action = action_program_change THEN 16 + low
        ELSE 128 + low

\* Whether the content loop takes the message: every data byte below 128
MidiAccepted(json_midi_message) ==
    \A k \in 2..Len(json_midi_message) : json_midi_message[k] < 128

\* pin placed into a sorted list after every element that is not after it
\* by the sort's comparison: by time, then by priority
RECURSIVE MidiInsertSorted(_, _)
MidiInsertSorted(sorted, pin) ==
    IF sorted = <<>> THEN <<pin>>
    ELSE IF (IF pin.time_ms # Head(sorted).time_ms
             THEN pin.time_ms < Head(sorted).time_ms
             ELSE pin.priority < Head(sorted).priority)
         THEN <<pin>> \o sorted
    ELSE <<Head(sorted)>> \o MidiInsertSorted(Tail(sorted), pin)

\* midiToProcess.sort(...): std::list::sort is stable
RECURSIVE MidiSort(_)
MidiSort(list) ==
    IF list = <<>> THEN <<>>
    ELSE MidiInsertSorted(MidiSort(SubSeq(list, 1, Len(list) - 1)),
                          list[Len(list)])

\* The outcome of one iteration of the clean-up loop: the pin stays and the
\* iterator moves on, or the pin is erased and the iterator is on its
\* successor
PinKept(list, device, i) ==
    [list |-> list, device |-> device, pin_it |-> i + 1, redundant |-> 0,
     created |-> 0]

PinErased(list, device, i) ==
    [list |-> EraseAt(list, i), device |-> device, pin_it |-> i,
     redundant |-> 1, created |-> 0]

\* case action_system, the four clock messages
CleanUpClock(list, i, device) ==
    LET pluck_pin == list[i]
        status == getStatusByte(pluck_pin)
        tracked == device.last_pin_clock # 0
        last == list[IndexOfId(list, device.last_pin_clock)]
        sameTime == last.time_ms = pluck_pin.time_ms
        lastStatus == getStatusByte(last)
        lastSet(s) == PutById(list, last.id, setStatusByte(last, s))
        pinSet(s) == PutById(list, pluck_pin.id, setStatusByte(pluck_pin, s))
        tracking == [device EXCEPT !.last_pin_clock = pluck_pin.id]
    IN  IF status = system_timing_clock
        THEN IF tracked
             THEN IF sameTime
                  THEN PinErased(IF lastStatus = system_clock_stop
                                 THEN lastSet(system_timing_clock) ELSE list,
                                 device, i)
                  ELSE PinKept(IF lastStatus = system_clock_stop
                               THEN pinSet(system_clock_continue) ELSE list,
                               tracking, i)
             ELSE PinKept(pinSet(system_clock_start), tracking, i)
        ELSE IF status = system_clock_start
        THEN IF tracked
             THEN IF sameTime
                  THEN PinErased(IF lastStatus = system_clock_stop
                                 THEN lastSet(system_timing_clock) ELSE list,
                                 device, i)
                  ELSE PinKept(IF lastStatus = system_clock_stop
                               THEN pinSet(system_clock_continue)
                               ELSE pinSet(system_timing_clock),
                               tracking, i)
             ELSE PinKept(list, tracking, i)
        ELSE IF status = system_clock_stop
        THEN IF tracked
             THEN IF sameTime
                  THEN PinErased(lastSet(system_clock_stop), device, i)
                  ELSE IF lastStatus = system_clock_stop
                  THEN PinErased(list, device, i)
                  ELSE PinKept(list, tracking, i)
             ELSE PinKept(list, tracking, i)
        ELSE IF tracked
             THEN IF sameTime
                  THEN PinErased(lastSet(system_timing_clock), device, i)
                  ELSE IF lastStatus \in {system_clock_start,
                                          system_clock_continue}
                  THEN PinKept(pinSet(system_timing_clock), tracking, i)
                  ELSE PinKept(lastSet(system_clock_stop), tracking, i)
             ELSE PinKept(pinSet(system_clock_start), tracking, i)

\* case system_song_pointer
CleanUpSongPointer(list, i, device) ==
    LET pluck_pin == list[i]
        last == list[IndexOfId(list, device.last_pin_song_pointer)]
    IN  IF /\ device.last_pin_song_pointer # 0
           /\ last.time_ms = pluck_pin.time_ms
           /\ getStatusByte(last) = system_song_pointer
           /\ getDataByte(last, 1) = getDataByte(pluck_pin, 1)
           /\ getDataByte(last, 2) = getDataByte(pluck_pin, 2)
        THEN PinErased(list, device, i)
        ELSE PinKept(list, [device EXCEPT !.last_pin_song_pointer =
                                              pluck_pin.id], i)

\* The Note On pins a device tracks for a channel
NoteOnList(device, channel_key) ==
    IF channel_key \in DOMAIN device.last_pin_note_on
    THEN device.last_pin_note_on[channel_key]
    ELSE <<>>

\* The first position of note_on_list whose pin has the key of pluck_pin
\* (MidiPin::operator==), 0 when there is none
FirstSameKey(note_on_list, list, pluck_pin) ==
    LET same == {m \in DOMAIN note_on_list :
                    getDataByte(list[IndexOfId(list, note_on_list[m])], 1)
                    = getDataByte(pluck_pin, 1)}
    IN  IF same = {} THEN 0
        ELSE CHOOSE m \in same : \A n \in same : m <= n

\* case action_note_off
CleanUpNoteOff(list, i, device) ==
    LET pluck_pin == list[i]
        channel_key == getChannel(pluck_pin)
        note_on_list == NoteOnList(device, channel_key)
        m == FirstSameKey(note_on_list, list, pluck_pin)
        last_pin_note_on == list[IndexOfId(list, note_on_list[m])]
    IN  IF m # 0
        THEN IF last_pin_note_on.level = 1
             THEN PinKept(list,
                     [device EXCEPT !.last_pin_note_on[channel_key] =
                                        EraseAt(note_on_list, m)], i)
             ELSE PinErased(PutById(list, last_pin_note_on.id,
                                [last_pin_note_on EXCEPT !.level = @ - 1]),
                            device, i)
        ELSE PinErased(list, device, i)

\* A Note On of a pressed key that goes in without a Note Off before it
NoteOnAgainBare(list, i, last_pin_note_on, id) ==
    [list |-> PutById(list, last_pin_note_on.id,
                      [last_pin_note_on EXCEPT !.level = @ + 1]),
     pin_it |-> i + 1, created |-> 0]

\* A Note On of a key that is pressed: the level of the tracked Note On goes
\* up and a Note Off of velocity 0 is inserted before the new Note On
NoteOnAgain(list, i, last_pin_note_on, id) ==
    LET pluck_pin == list[i]
        midi_message == <<getChannel(pluck_pin) + action_note_off,
                          getDataByte(pluck_pin, 1), 0>>
    IN  [list |-> InsertAt(PutById(list, last_pin_note_on.id,
                               [last_pin_note_on EXCEPT !.level = @ + 1]),
                           i,
                           NewMidiPin(id, pluck_pin.time_ms,
                                      pluck_pin.midi_device, midi_message, 255)),
         pin_it |-> i + 2, created |-> 1]

\* case action_note_on; id is the address of a pin it may create
CleanUpNoteOn(list, i, device, id) ==
    LET pluck_pin == list[i]
        channel_key == getChannel(pluck_pin)
        note_on_list == NoteOnList(device, channel_key)
        m == FirstSameKey(note_on_list, list, pluck_pin)
        again == NoteOnAgain(list, i, list[IndexOfId(list, note_on_list[m])], id)
    IN  IF m # 0
        THEN [list |-> again.list, device |-> device, pin_it |-> again.pin_it,
              redundant |-> 0, created |-> again.created]
        ELSE PinKept(list,
                [device EXCEPT !.last_pin_note_on =
                    MapPut(@, channel_key, Append(note_on_list, pluck_pin.id))],
                i)

\* MidiPin::operator!= with the copy last on the left
PinDiffers(last, pluck_pin) ==
    IF getAction(last) \in {action_control_change, action_key_pressure}
    THEN getDataByte(last, 2) # getDataByte(pluck_pin, 2)
    ELSE IF getAction(last) = action_pitch_bend
    THEN \/ getDataByte(last, 1) # getDataByte(pluck_pin, 1)
         \/ getDataByte(last, 2) # getDataByte(pluck_pin, 2)
    ELSE IF getAction(last) = action_channel_pressure
    THEN getDataByte(last, 1) # getDataByte(pluck_pin, 1)
    ELSE TRUE

\* case action_control_change, action_key_pressure: the copy kept under
\* status << 8 | data byte 1
CleanUpByte16(list, i, device) ==
    LET pluck_pin == list[i]
        dict_key == getStatusByte(pluck_pin) * 256 + getDataByte(pluck_pin, 1)
        dict_last == device.last_pin_byte_16
    IN  IF dict_key \in DOMAIN dict_last
        THEN IF PinDiffers(dict_last[dict_key], pluck_pin)
             THEN PinKept(list,
                     [device EXCEPT !.last_pin_byte_16[dict_key] =
                         setDataByte(@, 2, getDataByte(pluck_pin, 2))], i)
             ELSE PinErased(list, device, i)
        ELSE PinKept(list,
                [device EXCEPT !.last_pin_byte_16 =
                    MapPut(@, dict_key, pluck_pin)], i)

\* case action_pitch_bend, action_channel_pressure: the copy kept under the
\* status byte
CleanUpByte8(list, i, device) ==
    LET pluck_pin == list[i]
        dict_key == getStatusByte(pluck_pin)
        dict_last == device.last_pin_byte_8
        copied == IF getAction(pluck_pin) = action_pitch_bend
                  THEN setDataByte(setDataByte(dict_last[dict_key], 1,
                                               getDataByte(pluck_pin, 1)),
                                   2, getDataByte(pluck_pin, 2))
                  ELSE setDataByte(dict_last[dict_key], 1,
                                   getDataByte(pluck_pin, 1))
    IN  IF dict_key \in DOMAIN dict_last
        THEN IF PinDiffers(dict_last[dict_key], pluck_pin)
             THEN PinKept(list,
                     [device EXCEPT !.last_pin_byte_8[dict_key] = copied], i)
             ELSE PinErased(list, device, i)
        ELSE PinKept(list,
                [device EXCEPT !.last_pin_byte_8 =
                    MapPut(@, dict_key, pluck_pin)], i)

\* The body of the clean-up loop for the pin at position i
CleanUp(list, i, device, id) ==
    LET pluck_pin == list[i]
        action == getAction(pluck_pin)
    IN  IF action = action_system
        THEN IF getStatusByte(pluck_pin) \in ClockStatuses
             THEN CleanUpClock(list, i, device)
             ELSE IF getStatusByte(pluck_pin) = system_song_pointer
             THEN CleanUpSongPointer(list, i, device)
             ELSE PinKept(list, device, i)
        ELSE IF action = action_note_off THEN CleanUpNoteOff(list, i, device)
        ELSE IF action = action_note_on THEN CleanUpNoteOn(list, i, device, id)
        ELSE IF action \in {action_control_change, action_key_pressure}
        THEN CleanUpByte16(list, i, device)
        ELSE IF action \in {action_pitch_bend, action_channel_pressure}
        THEN CleanUpByte8(list, i, device)
        ELSE PinKept(list, device, i)

\* The Note Off that the end of the list gets for a Note On still tracked
NoteOffFor(last_pin_note_on, id, time_ms, midi_device) ==
    NewMidiPin(id, time_ms, midi_device,
               <<getChannel(last_pin_note_on) + action_note_off,
                 getDataByte(last_pin_note_on, 1),
                 getDataByte(last_pin_note_on, 2)>>, 255)

\* push_back of a Note Off for each pin of note_on_list from the m-th on
RECURSIVE FixUpNotes(_, _, _, _, _, _)
FixUpNotes(list, note_on_list, m, time_ms, midi_device, created) ==
    IF m > Len(note_on_list) THEN [list |-> list, created |-> created]
    ELSE FixUpNotes(
            Append(list, NoteOffFor(list[IndexOfId(list, note_on_list[m])],
                                    created + 1, time_ms, midi_device)),
            note_on_list, m + 1, time_ms, midi_device, created + 1)

\* The loop over device.last_pin_note_on, its channels taken in order from
\* the n-th on
RECURSIVE FixUpChannels(_, _, _, _, _, _, _)
FixUpChannels(list, device, order, n, time_ms, midi_device, created) ==
    IF n > Len(order) THEN [list |-> list, created |-> created]
    ELSE LET done == FixUpNotes(list, device.last_pin_note_on[order[n]], 1,
                                time_ms, midi_device, created)
         IN  FixUpChannels(done.list, device, order, n + 1, time_ms,
                           midi_device, done.created)

\* The body of the loop over available_midi_devices for one device: the
\* Note Offs, then the last clock pin becomes a Stop if (last_pin_clock !=
\* nullptr && its status is Timing Clock)
FixUpDevice(list, device, order, time_ms, midi_device, created) ==
    IF device.opened_port
    THEN LET done == FixUpChannels(list, device, order, 1, time_ms,
                                   midi_device, created)
             last == done.list[IndexOfId(done.list, device.last_pin_clock)]
         IN  [list |-> IF /\ device.last_pin_clock # 0
                          /\ getStatusByte(last) = system_timing_clock
                       THEN PutById(done.list, last.id,
                                    setStatusByte(last, system_clock_stop))
                       ELSE done.list,
              created |-> done.created]
    ELSE [list |-> list, created |-> created]

\* The orders in which an unordered_map may hand out the keys of dict
OrdersOf(dict) ==
    {order \in [1..Cardinality(DOMAIN dict) -> DOMAIN dict] :
        \A a, b \in DOMAIN order : order[a] = order[b] => a = b}

\* ------------------------------------------------------------------------
\* The MIDI player's inputs and steps
\* ------------------------------------------------------------------------

MidiDevices == {1, 2}

\* The times of the entries, in ms
MidiTimes == {0, 1}

\* The entries: notes of one key and the clock messages at both times, and
\* one message of each other kind the clean-up tells apart; the last one
\* has a data byte that is not a data byte
MidiElements ==
    { [midi_message |-> message, time_ms |-> time] :
        message \in { <<action_note_on, 60, 100>>, <<action_note_off, 60, 0>>,
                      <<system_timing_clock>>, <<system_clock_start>>,
                      <<system_clock_continue>>, <<system_clock_stop>> },
        time \in MidiTimes }
    \cup { [midi_message |-> message, time_ms |-> 1] :
             message \in { <<action_note_on, 61, 100>>,
                           <<action_control_change, 7, 1>>,
                           <<action_control_change, 7, 2>>,
                           <<action_pitch_bend, 0, 64>>,
                           <<action_channel_pressure, 5>>,
                           <<action_program_change, 1>>,
                           <<system_song_pointer, 0, 0>>,
                           <<action_note_on, 128, 100>> } }

\* PlayList before it reads the content: two output devices collected, none
\* connected
MidiConstructed ==
    /\ midiToProcess = <<>>
    /\ midiProcessed = <<>>
    /\ available_midi_devices = [d \in MidiDevices |-> NewMidiDevice]
    /\ last_called_midi_device = 0
    /\ pin_it = 0
    /\ last_message_time_ms = 0
    /\ midi_reporting = [total_generated |-> 0, total_validated |-> 0,
                         total_incorrect |-> 0, total_redundant |-> 0]
    /\ midi_counters = [entries |-> 0, created |-> 0]
    /\ midi_pc = "header"

\* The pins generated for a clocked device: Start, a Timing Clock per pulse,
\* Stop and a Song Position Pointer at the last position; pulses last 1 ms
ClockPins(midi_device, total_clock_pulses, created) ==
    <<NewMidiPin(created + 1, 0, midi_device, <<system_clock_start>>, 48)>>
    \o [pulse_i \in 1..(total_clock_pulses - 1) |->
            NewMidiPin(created + 1 + pulse_i, pulse_i, midi_device,
                       <<system_timing_clock>>, 48)]
    \o <<NewMidiPin(created + total_clock_pulses + 1, total_clock_pulses,
                    midi_device, <<system_clock_stop>>, 176),
         NewMidiPin(created + total_clock_pulses + 2, total_clock_pulses,
                    midi_device, <<system_song_pointer, 0, 0>>, 176)>>

\* The first element of the content: its clock, with one clocked device or
\* none (0)
MidiClockHeader(clocked_device, total_clock_pulses) ==
    /\ midi_pc = "header"
    /\ IF clocked_device = 0
       THEN UNCHANGED <<midiToProcess, available_midi_devices, midi_reporting,
                        midi_counters>>
       ELSE LET pins == ClockPins(clocked_device, total_clock_pulses,
                                  midi_counters.created)
            IN  /\ available_midi_devices' =
                       [available_midi_devices EXCEPT
                           ![clocked_device].opened_port = TRUE]
                /\ midiToProcess' = midiToProcess \o pins
                /\ midi_reporting' = [midi_reporting EXCEPT
                                         !.total_generated = @ + Len(pins)]
                /\ midi_counters' = [midi_counters EXCEPT
                                        !.created = @ + Len(pins)]
    /\ midi_pc' = "content"
    /\ UNCHANGED <<midiProcessed, last_called_midi_device, pin_it,
                   last_message_time_ms>>
    /\ UNCHANGED <<ck, playerVars>>

\* An element with "devices": the device named is connected and becomes the
\* last called one; 0 when no name is found or the port does not open
MidiDevicesElement(device) ==
    /\ midi_pc = "content"
    /\ midi_counters.entries < MaxMidiEntries
    /\ midi_counters' = [midi_counters EXCEPT !.entries = @ + 1]
    /\ last_called_midi_device' = device
    /\ available_midi_devices' =
           IF device = 0 THEN available_midi_devices
           ELSE [available_midi_devices EXCEPT ![device].opened_port = TRUE]
    /\ UNCHANGED <<midiToProcess, midiProcessed, pin_it, last_message_time_ms,
                   midi_reporting, midi_pc>>
    /\ UNCHANGED <<ck, playerVars>>

\* An element with "midi_message"
MidiMessageElement(jsonElement) ==
    /\ midi_pc = "content"
    /\ midi_counters.entries < MaxMidiEntries
    /\ IF last_called_midi_device = 0
       THEN /\ midi_counters' = [midi_counters EXCEPT !.entries = @ + 1]
            /\ UNCHANGED <<midiToProcess, midi_reporting>>
       ELSE IF MidiAccepted(jsonElement.midi_message)
       THEN /\ midiToProcess' = Append(midiToProcess,
                   NewMidiPin(midi_counters.created + 1, jsonElement.time_ms,
                              last_called_midi_device, jsonElement.midi_message,
                              MidiPriority(jsonElement.midi_message)))
            /\ midi_reporting' = [midi_reporting EXCEPT !.total_validated = @ + 1]
            /\ midi_counters' = [midi_counters EXCEPT !.entries = @ + 1,
                                                      !.created = @ + 1]
       ELSE /\ midi_reporting' = [midi_reporting EXCEPT !.total_incorrect = @ + 1]
            /\ midi_counters' = [midi_counters EXCEPT !.entries = @ + 1]
            /\ UNCHANGED midiToProcess
    /\ UNCHANGED <<midiProcessed, available_midi_devices,
                   last_called_midi_device, pin_it, last_message_time_ms,
                   midi_pc>>
    /\ UNCHANGED <<ck, playerVars>>

\* The content has ended: nothing to play, or the sort and the start of the
\* clean-up loop
MidiEndInput ==
    /\ midi_pc = "content"
    /\ IF Len(midiToProcess) = 0
       THEN /\ midi_pc' = "returned"
            /\ UNCHANGED <<midiToProcess, pin_it>>
       ELSE /\ midiToProcess' = MidiSort(midiToProcess)
            /\ pin_it' = 1
            /\ midi_pc' = "cleanup"
    /\ UNCHANGED <<midiProcessed, available_midi_devices,
                   last_called_midi_device, last_message_time_ms,
                   midi_reporting, midi_counters>>
    /\ UNCHANGED <<ck, playerVars>>

\* One iteration of the clean-up loop
MidiCleanUp ==
    /\ midi_pc = "cleanup"
    /\ pin_it <= Len(midiToProcess)
    /\ LET midi_device == midiToProcess[pin_it].midi_device
           done == CleanUp(midiToProcess, pin_it,
                           available_midi_devices[midi_device],
                           midi_counters.created + 1)
       IN  /\ midiToProcess' = done.list
           /\ available_midi_devices' =
                  [available_midi_devices EXCEPT ![midi_device] = done.device]
           /\ pin_it' = done.pin_it
           /\ midi_reporting' = [midi_reporting EXCEPT
                                    !.total_redundant = @ + done.redundant]
           /\ midi_counters' = [midi_counters EXCEPT
                                   !.created = @ + done.created]
    /\ UNCHANGED <<midiProcessed, last_called_midi_device,
                   last_message_time_ms, midi_pc>>
    /\ UNCHANGED <<ck, playerVars>>

\* The clean-up loop has ended: last_message_time_ms =
\* midiToProcess.back().getTime().  On an empty list the read faults, or
\* some time is read
MidiBack ==
    /\ midi_pc = "cleanup"
    /\ pin_it > Len(midiToProcess)
    /\ IF Len(midiToProcess) > 0
       THEN /\ last_message_time_ms' = midiToProcess[Len(midiToProcess)].time_ms
            /\ midi_pc' = "fixup"
       ELSE \/ /\ midi_pc' = "fault"
               /\ UNCHANGED last_message_time_ms
            \/ /\ midi_pc' = "fixup"
               /\ last_message_time_ms' \in MidiTimes
    /\ UNCHANGED <<midiToProcess, midiProcessed, available_midi_devices,
                   last_called_midi_device, pin_it, midi_reporting,
                   midi_counters>>
    /\ UNCHANGED <<ck, playerVars>>

\* The loop over the devices that ends the list, then the report, which
\* reads midiToProcess.back() again
MidiFixUp ==
    /\ midi_pc = "fixup"
    /\ \E order1 \in OrdersOf(available_midi_devices[1].last_pin_note_on) :
       \E order2 \in OrdersOf(available_midi_devices[2].last_pin_note_on) :
         LET first == FixUpDevice(midiToProcess, available_midi_devices[1],
                                  order1, last_message_time_ms, 1,
                                  midi_counters.created)
             second == FixUpDevice(first.list, available_midi_devices[2],
                                   order2, last_message_time_ms, 2,
                                   first.created)
         IN  /\ midiToProcess' = second.list
             /\ midi_counters' = [midi_counters EXCEPT !.created = second.created]
             /\ IF second.list = <<>>
                THEN midi_pc' \in {"fault", "returned"}
                ELSE midi_pc' = "play"
    /\ UNCHANGED <<midiProcessed, available_midi_devices,
                   last_called_midi_device, pin_it, last_message_time_ms,
                   midi_reporting>>
    /\ UNCHANGED <<ck, playerVars>>

\* One turn of the play loop: the front pin is sent and moved to
\* midiProcessed
MidiPluck ==
    /\ midi_pc = "play"
    /\ midiProcessed' = Append(midiProcessed, Head(midiToProcess))
    /\ midiToProcess' = Tail(midiToProcess)
    /\ midi_pc' = IF Len(midiToProcess) > 1 THEN "play" ELSE "returned"
    /\ UNCHANGED <<available_midi_devices, last_called_midi_device, pin_it,
                   last_message_time_ms, midi_reporting, midi_counters>>
    /\ UNCHANGED <<ck, playerVars>>

MidiNext ==
    \/ \E clocked_device \in {0, 1} :
          MidiClockHeader(clocked_device, MaxClockPulses)
    \/ \E device \in MidiDevices \cup {0} : MidiDevicesElement(device)
    \/ \E jsonElement \in MidiElements : MidiMessageElement(jsonElement)
    \/ MidiEndInput
    \/ MidiCleanUp
    \/ MidiBack
    \/ MidiFixUp
    \/ MidiPluck

\* ------------------------------------------------------------------------
\* Specifications
\* ------------------------------------------------------------------------

InitFailures == {"none", "socket", "setsockopt", "bind"}

PlayerNext ==
    \/ \E failed \in InitFailures : Initialize(failed)
    \/ \E accepted \in BOOLEAN : NextFile(accepted)
    \/ BadElement
    \/ \E jsonElement \in Entries : IngestEntry(jsonElement)
    \/ IngestMalformed
    \/ EndFile
    \/ EndInput
    \/ PinBegin
    \/ SleepIter
    \/ RecvResume
    \/ Pluck
    \/ Finish

Init == PlayerInit /\ ck = CkIdle /\ MidiConstructed

Next == PlayerNext \/ \E datagram \in Datagrams : Arrive(datagram)

\* PlayList with the network delivering datagrams as it pleases
Spec == Init /\ [][Next]_vars

\* The same, with the player taking a step whenever it can
FairSpec == Spec /\ WF_vars(PlayerNext)

CkInit ==
    /\ ck = CkIdle
    /\ pc = "idle"
    /\ platform = "linux"
    /\ socket_initialized = FALSE
    /\ sockfd = -1
    /\ sockopt = NoSocket
    /\ open_fds = 0
    /\ inbox = <<>>
    /\ received_messages = <<>>
    /\ devices = <<>>
    /\ devices_by_name = <<>>
    /\ devices_by_channel = <<>>
    /\ total_updates = 0
    /\ bpm = [n |-> 0, d |-> 0]
    /\ talkieToProcess = <<>>
    /\ talkieProcessed = <<>>
    /\ play_reporting = NoReporting
    /\ now = 0
    /\ timing = NoTiming
    /\ sent = <<>>
    /\ counters = NoCounters
    /\ MidiConstructed

CkNext ==
    /\ \/ \E message \in CkMessages, time \in CkTimes : CkStampPin(message, time)
       \/ \E message \in CkMessages :
             \/ CkStampTempo(message, BpmNBytes, 120)
             \/ CkStampTempo(message, BpmDBytes, 1)
       \/ \E text \in RawTexts : CkReceived(text)
       \/ CkNextText
    /\ UNCHANGED <<playerVars, midiVars>>

\* calculate_checksum applied to stamped messages and to received texts
SpecChecksum == CkInit /\ [][CkNext]_vars

\* A TalkieSocket that has been constructed and nothing else
SocketInit ==
    /\ ck = CkIdle
    /\ pc = "constructed"
    /\ platform \in {"linux", "win32"}
    /\ socket_initialized = FALSE
    /\ sockfd = -1
    /\ sockopt = NoSocket
    /\ open_fds = 0
    /\ inbox = <<>>
    /\ received_messages = <<>>
    /\ devices = <<>>
    /\ devices_by_name = <<>>
    /\ devices_by_channel = <<>>
    /\ total_updates = 0
    /\ bpm = [n |-> 0, d |-> 0]
    /\ talkieToProcess = <<>>
    /\ talkieProcessed = <<>>
    /\ play_reporting = NoReporting
    /\ now = 0
    /\ timing = NoTiming
    /\ sent = <<>>
    /\ counters = NoCounters
    /\ MidiConstructed

\* A call of initialize() on the socket; pc keeps how the call went
InitializeCall(failed) ==
    /\ pc \in {"constructed", "already", "none"} \cup InitFailures
    /\ counters.calls < MaxCalls
    /\ counters' = [counters EXCEPT !.calls = @ + 1]
    /\ LET done == initialize(failed)
       IN  /\ socket_initialized' = done.socket_initialized
           /\ sockfd' = done.sockfd
           /\ sockopt' = done.sockopt
           /\ open_fds' = done.open_fds
           /\ pc' = IF socket_initialized THEN "already" ELSE failed
    /\ UNCHANGED <<midiVars, ck, platform, inbox, received_messages, devices,
                   devices_by_name, devices_by_channel, total_updates, bpm,
                   talkieToProcess, talkieProcessed, play_reporting, now,
                   timing, sent>>

SocketNext == \E failed \in InitFailures : InitializeCall(failed)

\* initialize() called again and again, each call failing where it pleases
SpecInitialize == SocketInit /\ [][SocketNext]_vars

\* PlayList of the MIDI player over one file
SpecMidi == CkInit /\ [][MidiNext]_vars

\* ------------------------------------------------------------------------
\* Properties of the checksum (under SpecChecksum)
\* ------------------------------------------------------------------------

ReferenceWord(data_bytes, k) ==
    256 * data_bytes[2 * k + 1]
        + (IF 2 * k + 2 <= Len(data_bytes) THEN data_bytes[2 * k + 2] ELSE 0)

\* Number of words among the first n whose bit b is set
RECURSIVE ReferenceBitCount(_, _, _)
ReferenceBitCount(data_bytes, n, b) ==
    IF n = 0 THEN 0
    ELSE ((ReferenceWord(data_bytes, n - 1) \div Pow2(b)) % 2)
            + ReferenceBitCount(data_bytes, n - 1, b)

\* The exclusive or of all words, bit by bit from bit b up to bit 15
RECURSIVE ReferenceFold(_, _)
ReferenceFold(data_bytes, b) ==
    IF b > 15 THEN 0
    ELSE Pow2(b) * (ReferenceBitCount(data_bytes, (Len(data_bytes) + 1) \div 2, b) % 2)
            + ReferenceFold(data_bytes, b + 1)

PatternBefore(text, i) ==
    i >= 4 /\ i <= Len(text) /\ SubSeq(text, i - 3, i) = CPattern

\* Index just after the run of digits that starts at 0-based index i
RECURSIVE DigitRunEnd(_, _)
DigitRunEnd(text, i) ==
    IF i < Len(text) /\ IsDigit(At(text, i)) THEN DigitRunEnd(text, i + 1) ELSE i

\* The last n bytes of a sequence
LastBytes(bytes, n) == SubSeq(bytes, Len(bytes) - n + 1, Len(bytes))

\* C7: at most one masking per message: every byte after the value of the
\* first "c": is copied unchanged into the derived sequence, also when the
\* pattern "c": occurs again later in the text.
C7_OneMasking ==
    ck.op # "idle" =>
        \A i \in 4..(Len(ck.text) - 1) :
            (PatternBefore(ck.text, i) /\ \A j \in 4..(i - 1) : ~PatternBefore(ck.text, j))
            => LET rest == Len(ck.text) - DigitRunEnd(ck.text, i + 1)
               IN  /\ Len(DerivedBytes(ck.text)) >= rest
                   /\ LastBytes(DerivedBytes(ck.text), rest) = LastBytes(ck.text, rest)

\* A text in which "c": occurs twice has had its checksum computed
C7_Witness ==
    /\ ck.op # "idle"
    /\ \E i, j \in 4..Len(ck.text) :
          i < j /\ PatternBefore(ck.text, i) /\ PatternBefore(ck.text, j)

\* C8: the masking changes bytes only when the byte right after the colon of
\* "c": is a digit: a text in which no "c": is followed by a digit is its own
\* derived sequence.
C8_MaskOnlyDigits ==
    ck.op # "idle" =>
        ((\A i \in 4..(Len(ck.text) - 1) :
              PatternBefore(ck.text, i) => ~IsDigit(At(ck.text, i)))
         => DerivedBytes(ck.text) = ck.text)

\* A text in which "c": is followed by a byte that is not a digit has had
\* its checksum computed
C8_Witness ==
    /\ ck.op # "idle"
    /\ \E i \in 4..(Len(ck.text) - 1) :
          PatternBefore(ck.text, i) /\ ~IsDigit(At(ck.text, i))

\* ------------------------------------------------------------------------
\* Properties of the player (under Spec)
\* ------------------------------------------------------------------------

\* The records of sent that are pins, in order
SentPins == SelectSeq(sent, LAMBDA r : r.what = "pin")

\* Whether PlayList is at or past the start of play
Playing == pc \in {"pin", "sleep", "recv_blocked", "pluck", "stats", "crashed"}
              \/ (pc = "returned" /\ socket_initialized)

C2_AllPinsOnce ==
    (pc = "returned" /\ socket_initialized) =>
        /\ talkieToProcess = <<>>
        /\ Len(talkieProcessed) = play_reporting.total_validated
        /\ \A q \in 1..play_reporting.total_validated :
              /\ Cardinality({k \in DOMAIN talkieProcessed : talkieProcessed[k].seq = q}) = 1
              /\ Cardinality({k \in DOMAIN SentPins : SentPins[k].seq = q}) = 1

\* A full run that transmitted two pins of the same time
C2_Witness ==
    /\ pc = "returned"
    /\ socket_initialized
    /\ play_reporting.total_validated = 2
    /\ Len(talkieProcessed) = 2
    /\ talkieProcessed[1].time_ms = talkieProcessed[2].time_ms

\* C3: no discovery tick or socket operation blocks the player: PlayList is
\* never waiting in recvfrom with no datagram to receive.
C3_NeverBlocks ==
    ~(pc = "recv_blocked" /\ inbox = <<>>)

\* C4: no pin is transmitted early: when the sleep has ended the time elapsed
\* since playing_start is at least the pin's target, and every recorded delay
\* is at least 0.
C4_NeverEarly ==
    /\ pc = "pluck" =>
          CastToUs(now - timing.playing_start) >= timing.next_pin_time_us
    /\ \A k \in DOMAIN talkieProcessed : talkieProcessed[k].delay_time_ms >= 0

\* A pin with a positive sleep has been transmitted exactly on its target
\* after an earlier pin was transmitted late
C4_Witness ==
    /\ Len(talkieProcessed) = 2
    /\ talkieProcessed[1].delay_time_ms > 0
    /\ talkieProcessed[2].delay_time_ms = 0
    /\ talkieProcessed[2].time_ms > talkieProcessed[1].time_ms

\* C9: a pin is broadcast on its device's target_port if and only if the
\* device's target_ip is unresolved when the pin is emitted, and otherwise
\* unicast to the device's target_ip and target_port.
C9_ModeAtEmission ==
    [][ (Len(sent') = Len(sent) + 1 /\ sent'[Len(sent')].what = "pin") =>
            LET r == sent'[Len(sent')]
                device == devices[r.device]
            IN  /\ r.port = device.target_port
                /\ IF device.target_ip = ""
                   THEN r.mode = "broadcast" /\ r.ip = INADDR_BROADCAST
                   ELSE r.mode = "unicast" /\ r.ip = device.target_ip ]_vars

\* A pin enqueued while its device was unresolved has been unicast
C9_Witness ==
    \E k \in DOMAIN sent :
        /\ sent[k].what = "pin"
        /\ sent[k].mode = "unicast"
        /\ devices[sent[k].device].alive
        /\ sent[k].ip = devices[sent[k].device].target_ip

\* C10: the transmissions of a name-keyed device are broadcasts followed by
\* unicasts to one IP: after a unicast, every later transmission of the
\* device is a unicast to the same IP.
C10_BroadcastThenOneUnicast ==
    \A k, l \in DOMAIN sent :
        (/\ k < l
         /\ sent[k].device = sent[l].device
         /\ devices[sent[k].device].kind = "name"
         /\ sent[k].mode = "unicast")
        => (sent[l].mode = "unicast" /\ sent[l].ip = sent[k].ip)

\* Two pins of a name-keyed device have been unicast to one IP, the second
\* after a valid advertisement of the name came from another IP
C10_Witness ==
    \E k, l \in DOMAIN sent :
        /\ k < l
        /\ sent[k].device = sent[l].device
        /\ devices[sent[k].device].kind = "name"
        /\ sent[k].mode = "unicast"
        /\ sent[l].mode = "unicast"
        /\ \E j \in DOMAIN received_messages :
              /\ received_messages[j][1] # sent[l].ip
              /\ received_messages[j][2] =
                    encode(Advert(devices[sent[k].device].key, Num(GoodC(devices[sent[k].device].key))))

\* ------------------------------------------------------------------------
\* Properties of peer discovery (under Spec)
\* ------------------------------------------------------------------------

\* Whether datagram is an advertisement of name whose c is the checksum of
\* its bytes
ValidAdvertFor(datagram, name) ==
    LET parsed == ParseJson(datagram[2])
    IN  /\ parsed.ok
        /\ parsed.doc.f = Str(name)
        /\ parsed.doc.c.k = "num"
        /\ parsed.doc.c.n = calculate_checksum(datagram[2])

\* Whether datagram is an advertisement of name whose c is not the checksum
\* of its bytes
MismatchedAdvertFor(datagram, name) ==
    LET parsed == ParseJson(datagram[2])
    IN  /\ parsed.ok
        /\ parsed.doc.f = Str(name)
        /\ parsed.doc.c.k = "num"
        /\ parsed.doc.c.n # calculate_checksum(datagram[2])

\* A step in which a discovery tick that found datagrams ready has ended
TickDone == inbox # <<>> /\ inbox' = <<>> /\ pc' # "recv_blocked"

\* C11: a discovery tick that finds ready a valid advertisement of an
\* unresolved name-keyed device, sent by S, leaves the device's target_ip
\* equal to S and total_updates increased by one.
C11_ValidAdvertBinds ==
    [][ (pc = "sleep" /\ TickDone) =>
            \A name \in DOMAIN devices_by_name :
                (/\ devices[devices_by_name[name]].target_ip = ""
                 /\ ValidAdvertFor(Head(inbox), name))
                => /\ devices'[devices_by_name[name]].target_ip = Head(inbox)[1]
                   /\ total_updates' = total_updates + 1 ]_vars

\* A valid advertisement of an unresolved name-keyed device is the first
\* datagram ready when a sleep begins
C11_Witness ==
    /\ pc = "sleep"
    /\ Len(inbox) = 2
    /\ \E name \in DOMAIN devices_by_name :
          /\ devices[devices_by_name[name]].target_ip = ""
          /\ ValidAdvertFor(Head(inbox), name)

C13_DeviceFieldsFixed ==
    [][ \A a \in DOMAIN devices :
            /\ a \in DOMAIN devices'
            /\ devices'[a].target_port = devices[a].target_port
            /\ devices[a].target_ip # "" =>
                  devices'[a].target_ip = devices[a].target_ip ]_vars

\* A resolved device has kept its address through a batch that held a valid
\* advertisement of its name from another sender
C13_Witness ==
    \E name \in DOMAIN devices_by_name, j \in DOMAIN received_messages :
        /\ devices[devices_by_name[name]].target_ip # ""
        /\ ValidAdvertFor(received_messages[j], name)
        /\ received_messages[j][1] # devices[devices_by_name[name]].target_ip
        /\ total_updates = 1

\* The names whose device is resolved
ResolvedNames ==
    {name \in DOMAIN devices_by_name :
        devices[devices_by_name[name]].target_ip # ""}

\* C14: total_updates is the number of devices_by_name entries that are
\* resolved, never more than the number of entries, and never decreases.
C14_ResolvedCount ==
    /\ [](/\ total_updates = Cardinality(ResolvedNames)
          /\ total_updates <= Cardinality(DOMAIN devices_by_name))
    /\ [][total_updates' >= total_updates]_vars

\* One of two registered names is resolved
C14_Witness ==
    /\ Cardinality(DOMAIN devices_by_name) = 2
    /\ Cardinality(ResolvedNames) = 1
    /\ total_updates = 1

\* ------------------------------------------------------------------------
\* Properties of start-up and ingestion (under Spec)
\* ------------------------------------------------------------------------

\* C15: PlayList returns 0 when the run succeeds and a non-zero code when
\* the initialisation of the socket fails.
C15_ReturnCode ==
    pc = "returned" => (counters.ret = 0 <=> socket_initialized)

\* PlayList has returned after initialize() failed
C15_Witness ==
    /\ pc = "returned"
    /\ ~socket_initialized
    /\ counters.files = 0

\* C16: while the socket is not initialised nothing has been sent, no device
\* exists, both lists are empty, and a send on the socket hands nothing to
\* sendto.
C16_NothingWithoutSocket ==
    ~socket_initialized =>
        /\ sent = <<>>
        /\ devices = <<>>
        /\ DOMAIN devices_by_name = {}
        /\ DOMAIN devices_by_channel = {}
        /\ talkieToProcess = <<>>
        /\ talkieProcessed = <<>>
        /\ sendBroadcast(5005, NameA).mode = "none"
        /\ \A ip \in PeerIPs : sendToDevice(ip, 5005, NameA).mode = "none"

\* PlayList has returned after a failed bind, with the descriptor closed
C16_Witness ==
    /\ pc = "returned"
    /\ ~socket_initialized
    /\ sockfd = -1
    /\ open_fds = 0
    /\ counters.ret = 0

\* C17: no exception leaves PlayList.
C17_NoExceptionLeaves ==
    pc # "threw"

\* An exception has left PlayList after a pin was ingested
C17_Witness ==
    /\ pc = "threw"
    /\ Len(talkieToProcess) > 0

\* C18: a timed entry whose message t is neither a string nor a number, or
\* is absent, adds 1 to total_incorrect and nothing else: no pin, no device,
\* no datagram, total_validated as it was, and the content loop goes on.
C18_WrongTargetDropped ==
    [][ \A e \in Entries :
            (/\ e.kind = "message"
             /\ e.message.t.k \notin {"str", "num"}
             /\ IngestEntry(e))
            => /\ play_reporting'.total_incorrect = play_reporting.total_incorrect + 1
               /\ play_reporting'.total_validated = play_reporting.total_validated
               /\ UNCHANGED <<devices, devices_by_name, devices_by_channel,
                              talkieToProcess, sent>>
               /\ pc' = "entries" ]_vars

\* A run has played two pins and dropped one entry
C18_Witness ==
    /\ pc = "returned"
    /\ play_reporting.total_incorrect = 1
    /\ play_reporting.total_validated = 2
    /\ Len(talkieProcessed) = 2

\* C19: a top-level element of the wrong filetype or url changes no pin, no
\* device, no datagram and no counter of the report, and the file loop goes
\* on with the next element.
C19_WrongFileSkipped ==
    [][ (pc = "files" /\ counters'.skipped = counters.skipped + 1) =>
            /\ UNCHANGED <<devices, devices_by_name, devices_by_channel,
                           talkieToProcess, talkieProcessed, sent,
                           play_reporting, bpm, total_updates>>
            /\ pc' = "files" ]_vars

\* One element was skipped and the content of another was played
C19_Witness ==
    /\ pc = "returned"
    /\ counters.skipped = 1
    /\ counters.files = 2
    /\ Len(talkieProcessed) > 0

\* The text of a tempo message for target t: m = set, i = 0, the property
\* name and value, and the checksum of its encoding with c = 0
ExpectedTempoText(t, name, value) ==
    LET zeroed == [c |-> Num(0), f |-> Absent, i |-> Num(0),
                   m |-> Num(MessageCode_set), n |-> Str(name), t |-> t,
                   v |-> Num(value)]
    IN  encode([zeroed EXCEPT !.c = Num(calculate_checksum(encode(zeroed)))])

\* Whether record is the broadcast of text to the device at address a
TempoRecord(record, a, text) ==
    /\ record.what = "tempo"
    /\ record.device = a
    /\ record.mode = "broadcast"
    /\ record.port = devices'[a].target_port
    /\ record.text = text
    /\ calculate_checksum(record.text) = ParsedC(record.text)

\* C20: tempo messages are sent exactly when a device is created in a file
\* whose tempo has been captured: bpm_n then bpm_d, to the new device, with
\* m = set, i = 0 and a valid c; a file starts with no tempo captured; no
\* other step of the ingestion sends; and every tempo message precedes every
\* pin in the order of transmission.
C20_TempoAtCreation ==
    /\ [][ /\ Len(devices') = Len(devices) + 1 =>
                LET a == Len(devices')
                    t == IF devices'[a].kind = "name" THEN Str(devices'[a].key)
                         ELSE Num(devices'[a].key)
                IN  IF bpm.d # 0
                    THEN /\ Len(sent') = Len(sent) + 2
                         /\ SubSeq(sent', 1, Len(sent)) = sent
                         /\ TempoRecord(sent'[Len(sent) + 1], a,
                                ExpectedTempoText(t, BpmNBytes, bpm.n))
                         /\ TempoRecord(sent'[Len(sent) + 2], a,
                                ExpectedTempoText(t, BpmDBytes, bpm.d))
                    ELSE sent' = sent
           /\ (pc \in {"files", "entries"} /\ Len(devices') = Len(devices)) =>
                sent' = sent
           /\ (pc = "files" /\ pc' = "entries") => bpm'.d = 0 ]_vars
    /\ [](\A k, l \in DOMAIN sent :
             (k < l /\ sent[l].what = "tempo") => sent[k].what = "tempo")

\* A device created after the tempo got its two tempo messages, and two pins
\* were then sent to it
C20_Witness ==
    /\ pc = "returned"
    /\ Len(sent) = 4
    /\ sent[1].what = "tempo"
    /\ sent[2].what = "tempo"
    /\ sent[3].what = "pin"
    /\ sent[4].what = "pin"
    /\ sent[3].device = sent[1].device
    /\ sent[4].device = sent[1].device

\* ------------------------------------------------------------------------
\* Properties of tempo, devices and the socket's life (under Spec)
\* ------------------------------------------------------------------------

\* C21: once a timed-message entry of a file has been read, no later entry
\* of that file changes the captured tempo.
C21_LateTempoIgnored ==
    [][ (pc = "entries" /\ counters.timed) => bpm' = bpm ]_vars

\* In one file a first device was created without tempo messages and a
\* second one with them: the tempo was captured between the two
C21_Witness ==
    /\ counters.files = 1
    /\ Len(devices) = 2
    /\ Len(sent) = 2
    /\ sent[1].what = "tempo"
    /\ sent[2].what = "tempo"
    /\ sent[1].device = 2
    /\ sent[2].device = 2

\* C22: a run that read no entry at all returns 0 with both lists empty,
\* nothing sent and every delay statistic at 0.
C22_EmptyContent ==
    (pc = "returned" /\ counters.entries = 0) =>
        /\ talkieToProcess = <<>>
        /\ talkieProcessed = <<>>
        /\ sent = <<>>
        /\ counters.ret = 0
        /\ play_reporting.total_drag = 0
        /\ play_reporting.total_delay = 0
        /\ play_reporting.maximum_delay = 0
        /\ play_reporting.minimum_delay = 0
        /\ play_reporting.average_delay = 0
        /\ play_reporting.sd_delay = 0

\* PlayList has returned after two accepted files without entries
C22_Witness ==
    /\ pc = "returned"
    /\ socket_initialized
    /\ counters.files = 2
    /\ counters.skipped = 0
    /\ counters.entries = 0

\* C23: while pins wait to be played, the device of every one of them is
\* alive.
C23_DevicesAlive ==
    pc \in {"pin", "sleep", "recv_blocked", "pluck"} =>
        \A k \in DOMAIN talkieToProcess :
            devices[talkieToProcess[k].talkie_device].alive

\* A pin is about to be emitted through a destroyed channel device
C23_Witness ==
    /\ pc = "pluck"
    /\ devices[Head(talkieToProcess).talkie_device].kind = "channel"
    /\ ~devices[Head(talkieToProcess).talkie_device].alive

\* C24: no two devices of a run have the same kind of key and the same key,
\* so pins of one target share one device.
C24_OneDevicePerTarget ==
    \A a, b \in DOMAIN devices :
        (devices[a].kind = devices[b].kind /\ devices[a].key = devices[b].key)
        => a = b

\* Two pins of the same channel, read from two files, on two devices
C24_Witness ==
    /\ counters.files = 2
    /\ Len(talkieToProcess) = 2
    /\ LET a == talkieToProcess[1].talkie_device
           b == talkieToProcess[2].talkie_device
       IN  /\ a # b
           /\ devices[a].kind = "channel"
           /\ devices[b].kind = "channel"
           /\ devices[a].key = devices[b].key

\* C25: the pin made from a timed entry goes to a device whose target_port
\* is the entry's port.
C25_PortOfEntry ==
    [][ \A e \in Entries :
            (/\ e.kind = "message"
             /\ Len(talkieToProcess') = Len(talkieToProcess) + 1
             /\ talkieToProcess'[Len(talkieToProcess')].talkie_message =
                    encode(StampMessage(e.message, e.time_ms + delay_ms))
             /\ IngestEntry(e))
            => devices'[talkieToProcess'[Len(talkieToProcess')].talkie_device]
                    .target_port = e.port ]_vars

\* The pin of the entry for A at port 5006 was sent to port 5005
C25_Witness ==
    \E k \in DOMAIN sent :
        /\ sent[k].what = "pin"
        /\ sent[k].text = encode(StampMessage(EntryMessage(Str(NameA)), 7 + delay_ms))
        /\ sent[k].port = 5005

\* C26: when PlayList has ended, by return or by an exception, the socket
\* is closed and no descriptor is open.
C26_SocketClosed ==
    pc \in {"returned", "threw"} => (open_fds = 0 /\ sockfd = -1)

\* An exception has left PlayList and the descriptor is still open
C26_Witness ==
    /\ pc = "threw"
    /\ socket_initialized
    /\ open_fds = 1
    /\ sockfd # -1

\* ------------------------------------------------------------------------
\* Properties of initialize() (under SpecInitialize)
\* ------------------------------------------------------------------------

\* C27: after any calls of initialize() the socket is either initialised,
\* with exactly one descriptor open, broadcast enabled and bound to port
\* 5005, or not initialised with no descriptor open; a call on an
\* initialised socket returns true and changes nothing.
C27_InitializeConsistent ==
    /\ [](IF socket_initialized
          THEN /\ sockfd # -1
               /\ open_fds = 1
               /\ sockopt = [broadcast |-> TRUE, port |-> 5005]
          ELSE /\ sockfd = -1
               /\ open_fds = 0
               /\ sockopt = NoSocket)
    /\ [][ socket_initialized =>
              /\ UNCHANGED <<socket_initialized, sockfd, sockopt, open_fds>>
              /\ \A failed \in InitFailures : initialize(failed).result ]_vars

\* initialize() was called on an initialised socket, after a call that failed
C27_Witness ==
    /\ pc = "already"
    /\ counters.calls >= 3
    /\ socket_initialized
    /\ open_fds = 1

\* ------------------------------------------------------------------------
\* Properties of the play loop's errors, drag and sleep (under Spec)
\* ------------------------------------------------------------------------

\* C28: an emission whose send the transport refused moves the pin to the
\* processed list with its delay and goes on with the next pin, and the
\* loop ends only when no pin is left.
C28_RefusedSendGoesOn ==
    /\ [][ (/\ pc = "pluck"
            /\ Len(sent') = Len(sent) + 1
            /\ ~sent'[Len(sent')].ok)
           => /\ talkieToProcess' = Tail(talkieToProcess)
              /\ Len(talkieProcessed') = Len(talkieProcessed) + 1
              /\ SubSeq(talkieProcessed', 1, Len(talkieProcessed)) = talkieProcessed
              /\ LET moved == talkieProcessed'[Len(talkieProcessed')]
                 IN  /\ moved.seq = Head(talkieToProcess).seq
                     /\ moved.delay_time_ms =
                          (CastToUs(now' - timing.playing_start)
                             - timing.next_pin_time_us) * UnitsPerUs
              /\ pc' = IF Len(talkieToProcess) > 1 THEN "pin" ELSE "stats" ]_vars
    /\ [](pc \in {"stats", "returned"} => talkieToProcess = <<>>)

\* The first send of a run was refused and a later pin was sent all the same
C28_Witness ==
    /\ pc = "returned"
    /\ Len(sent) >= 2
    /\ sent[1].what = "pin"
    /\ ~sent[1].ok
    /\ sent[2].what = "pin"
    /\ sent[2].ok
    /\ Len(talkieProcessed) = 2

\* 1000/48 ms, in units
DragThreshold == (1000 * UnitsPerMs) \div 48

\* C29: total_drag starts at 0 and changes only with an emission, by the
\* pin's delay less 1000/48 ms when the delay is above that and by nothing
\* otherwise; it never decreases.  A first pin 120 ms late gives a drag of
\* 99.167 ms and a pin at 100 ms the target 199167 us.
C29_DragAccumulates ==
    /\ [](/\ pc = "start" => play_reporting.total_drag = 0
          /\ RoundDiv(DragAfter(0, 120 * UnitsPerMs) * 1000, UnitsPerMs) = 99167
          /\ RoundToUs(100 * UnitsPerMs + DragAfter(0, 120 * UnitsPerMs)) = 199167)
    /\ [][ /\ play_reporting'.total_drag >= play_reporting.total_drag
           /\ IF pc = "pluck" /\ Len(talkieProcessed') = Len(talkieProcessed) + 1
              THEN LET delay == talkieProcessed'[Len(talkieProcessed')].delay_time_ms
                   IN  play_reporting'.total_drag = play_reporting.total_drag +
                          (IF delay > DragThreshold THEN delay - DragThreshold ELSE 0)
              ELSE play_reporting'.total_drag = play_reporting.total_drag ]_vars

\* The first pin was late by more than the threshold and the second pin's
\* target has moved by the drag
C29_Witness ==
    /\ pc = "sleep"
    /\ Len(talkieProcessed) = 1
    /\ talkieProcessed[1].delay_time_ms > DragThreshold
    /\ play_reporting.total_drag = talkieProcessed[1].delay_time_ms - DragThreshold
    /\ timing.next_pin_time_us =
          RoundToUs(Head(talkieToProcess).time_ms + play_reporting.total_drag)

\* C30: the sleep takes datagrams off the socket only while some name is
\* unresolved.
C30_TickOnlyWhenUnresolved ==
    [][ (pc = "sleep" /\ Len(inbox') < Len(inbox)) =>
            total_updates < Cardinality(DOMAIN devices_by_name) ]_vars

\* With no name-keyed device at all, the sleep has read the socket and waits
\* in recvfrom
C30_Witness ==
    /\ platform = "linux"
    /\ pc = "recv_blocked"
    /\ DOMAIN devices_by_name = {}


\* ------------------------------------------------------------------------
\* Properties of a discovery tick's batch (under Spec)
\* ------------------------------------------------------------------------

\* C31: within one discovery tick each datagram is handled on its own: one
\* that fails to parse, or lacks a string f or a numeric c, or names an
\* unknown or resolved device, is dropped and the datagrams after it can
\* still bind, and the tick reports true exactly when it made a binding.
\* In the model: after a tick no registered name has a valid advertisement
\* in the batch and an empty target_ip, and the loop's result is whether
\* total_updates went up.
C31_BatchIndependent ==
    [][TickDone =>
        /\ \A j \in DOMAIN received_messages' :
           \A name \in DOMAIN devices_by_name :
              ValidAdvertFor(received_messages'[j], name) =>
                  devices'[devices_by_name[name]].target_ip # ""
        /\ HandleMessages(received_messages', 1, devices, total_updates,
                          FALSE).result
           = (total_updates' > total_updates)]_vars

\* A tick has handled a batch whose first datagram is not JSON and whose
\* second is a valid advertisement of a registered name
C31_Witness ==
    /\ Len(received_messages) = 2
    /\ ~ParseJson(received_messages[1][2]).ok
    /\ \E name \in DOMAIN devices_by_name :
          ValidAdvertFor(received_messages[2], name)

\* C32: a poll of the socket (hasMessages, then receiveMessages) returns
\* every datagram that was ready, with its sender, in arrival order, and
\* consumes none that it does not return.
C32_PollReturnsAll ==
    [][(pc = "sleep" /\ Len(inbox') < Len(inbox)) =>
           received_messages' = inbox]_vars

\* A poll that found two datagrams ready has returned one
C32_Witness ==
    /\ pc \in {"sleep", "pluck"}
    /\ counters.arrivals = 2
    /\ inbox = <<>>
    /\ Len(received_messages) = 1

\* ------------------------------------------------------------------------
\* Properties of the pins and of the report (under Spec)
\* ------------------------------------------------------------------------

\* The pins of the run
AllPins == talkieToProcess \o talkieProcessed

\* C33: once a pin has been appended, its time_ms, its device and its
\* payload never change, through the sort, the bindings, the emission and
\* the move to the processed list; its delay is written once, by the
\* emission that moves it.
C33_PinsFrozen ==
    /\ [](\A k \in DOMAIN talkieToProcess :
              talkieToProcess[k].delay_time_ms = 0 - UnitsPerMs)
    /\ [][\A k \in DOMAIN AllPins : \A l \in DOMAIN AllPins' :
            LET before == AllPins[k]
                after == AllPins'[l]
            IN  before.seq = after.seq =>
                  /\ after.time_ms = before.time_ms
                  /\ after.talkie_device = before.talkie_device
                  /\ after.talkie_message = before.talkie_message
                  /\ after.delay_time_ms # before.delay_time_ms =>
                        /\ pc = "pluck"
                        /\ before = Head(talkieToProcess)
                        /\ l = Len(AllPins')]_vars

\* A pin has been emitted to a device that a tick has bound, and another
\* waits
C33_Witness ==
    /\ Len(talkieProcessed) >= 1
    /\ Len(talkieToProcess) >= 1
    /\ total_updates >= 1
    /\ talkieProcessed[1].delay_time_ms >= 0
    /\ devices[talkieProcessed[1].talkie_device].target_ip # ""

\* The sum of the first n recorded delays
RECURSIVE C34_SumTo(_)
C34_SumTo(n) ==
    IF n = 0 THEN 0 ELSE talkieProcessed[n].delay_time_ms + C34_SumTo(n - 1)

C35_CountersAddUp ==
    /\ play_reporting.total_incorrect >= 0
    /\ pc \in {"pin", "sleep", "recv_blocked", "pluck", "stats"} =>
          /\ play_reporting.total_validated = Len(AllPins)
          /\ play_reporting.total_validated + play_reporting.total_incorrect
             = counters.messages

\* Ingestion has ended with pins appended and with an entry dropped for its
\* target
C35_Witness ==
    /\ pc = "pin"
    /\ talkieProcessed = <<>>
    /\ play_reporting.total_validated >= 1
    /\ play_reporting.total_incorrect >= 1
    /\ counters.messages = 3

\* C36: discovery binds name-keyed devices only; a channel-keyed device
\* stays unresolved for the whole run, so every pin and every tempo message
\* addressed by channel goes out as a broadcast, whatever datagrams arrive.
C36_ChannelBroadcast ==
    /\ \A a \in DOMAIN devices :
          devices[a].kind = "channel" => devices[a].target_ip = ""
    /\ \A k \in DOMAIN sent :
          devices[sent[k].device].kind = "channel" =>
              sent[k].mode = "broadcast"
    /\ pc = "crashed" =>
          devices[Head(talkieToProcess).talkie_device].kind # "channel"

\* A pin addressed by channel has been emitted in a run in which a datagram
\* arrived
C36_Witness ==
    /\ counters.arrivals >= 1
    /\ \E k \in DOMAIN sent :
          /\ sent[k].what = "pin"
          /\ devices[sent[k].device].kind = "channel"


\* ------------------------------------------------------------------------
\* calculate_checksum's derived buffer, one iteration of the pre-processing
\* loop at a time
\* ------------------------------------------------------------------------

\* uint8_t data_bytes[1024]
DATA_BYTES_SIZE == 1024

\* A run of n bytes 'x'
Filler(n) == [k \in 1..n |-> 120]

\* The text ingestion hands to calculate_checksum: the message with i set
\* and c 0, encoded
IngestionText(message, time_milliseconds) ==
    encode([message EXCEPT !.i = Num(message_id(time_milliseconds)),
                           !.c = Num(0)])

\* The text sendTempo hands to calculate_checksum
TempoText(json_talkie_message, name, value) ==
    encode([json_talkie_message EXCEPT
                !.m = Num(MessageCode_set), !.i = Num(0), !.n = Str(name),
                !.v = Num(value), !.c = Num(0)])

\* The texts calculate_checksum is called on: payloads of ingestion, short
\* and long, a tempo message, and received datagrams up to the longest one
\* (receiveMessages reads at most sizeof(buffer) - 1 bytes)
BufferTexts ==
    { [origin |-> "pin", text |-> IngestionText(EntryMessage(Str(NameA)), 7)],
      [origin |-> "pin",
       text |-> IngestionText([EntryMessage(Str(NameA)) EXCEPT
                                  !.n = Str(Filler(DATA_BYTES_SIZE))], 7)],
      [origin |-> "tempo",
       text |-> TempoText(EntryMessage(Str(NameA)), BpmNBytes, 120)],
      [origin |-> "received", text |-> Filler(DATA_BYTES_SIZE - 1)],
      [origin |-> "received", text |-> encode(Advert(NameA, Num(GoodC(NameA))))] }

\* calculate_checksum is entered with a text: i = 0, data_bytes_i = 0,
\* at_c0 = false
CkScanBegin(input) ==
    /\ ck.op \in {"idle", "scanned"}
    /\ ck' = [op |-> "scan", origin |-> input.origin, text |-> input.text,
              i |-> 0, data_bytes_i |-> 0, at_c0 |-> FALSE]
    /\ UNCHANGED <<playerVars, midiVars>>

\* One iteration of the pre-processing loop.  A store at an index that is
\* not below DATA_BYTES_SIZE is a write past the array: the stack is
\* smashed and the function goes on, or the process is stopped
CkScanByte ==
    /\ ck.op \in {"scan", "smashed"}
    /\ ck.i < Len(ck.text)
    /\ IF ~ck.at_c0 /\ AtCPattern(ck.text, ck.i)
       THEN \E outcome \in IF ck.data_bytes_i < DATA_BYTES_SIZE THEN {ck.op}
                           ELSE {"smashed", "fault"} :
              ck' = [ck EXCEPT !.op = outcome, !.i = @ + 1,
                               !.data_bytes_i = @ + 1, !.at_c0 = TRUE]
       ELSE IF ck.at_c0 /\ ~(At(ck.text, ck.i) < CH_0 \/ At(ck.text, ck.i) > CH_9)
       THEN ck' = [ck EXCEPT !.i = @ + 1]
       ELSE \E outcome \in IF ck.data_bytes_i < DATA_BYTES_SIZE THEN {ck.op}
                           ELSE {"smashed", "fault"} :
              ck' = [ck EXCEPT !.op = outcome, !.i = @ + 1,
                               !.data_bytes_i = @ + 1, !.at_c0 = FALSE]
    /\ UNCHANGED <<playerVars, midiVars>>

\* The loop has ended: len = data_bytes_i
CkScanEnd ==
    /\ ck.op \in {"scan", "smashed"}
    /\ ck.i >= Len(ck.text)
    /\ ck' = [ck EXCEPT !.op = IF ck.op = "scan" THEN "scanned" ELSE "fault"]
    /\ UNCHANGED <<playerVars, midiVars>>

BufferNext ==
    \/ \E input \in BufferTexts : CkScanBegin(input)
    \/ CkScanByte
    \/ CkScanEnd

\* The pre-processing loop of calculate_checksum over the texts it is
\* called on
SpecBuffer == CkInit /\ [][BufferNext]_vars

\* ------------------------------------------------------------------------
\* Properties of the derived buffer (under SpecBuffer)
\* ------------------------------------------------------------------------

\* C37: calculate_checksum never writes beyond its 1024-byte derived
\* buffer, for every text it is called on: encoded payloads of ingestion of
\* any length, tempo messages, and received datagrams of up to 1023 bytes.
\* In the model: the number of bytes stored in data_bytes never exceeds
\* DATA_BYTES_SIZE.
C37_WritesInBuffer ==
    ck.op \in {"scan", "smashed", "fault", "scanned"} =>
        ck.data_bytes_i <= DATA_BYTES_SIZE

\* The scan of an ingestion payload has filled the buffer and has bytes
\* left to store
C37_Witness ==
    /\ ck.op = "scan"
    /\ ck.origin = "pin"
    /\ ck.data_bytes_i = DATA_BYTES_SIZE
    /\ ck.i < Len(ck.text)


\* ------------------------------------------------------------------------
\* Properties of the MIDI player's list (under SpecMidi)
\* ------------------------------------------------------------------------

\* The pins in play order: those played, then those still to play
MidiPlayOrder == midiProcessed \o midiToProcess

\* Whether a and b are notes of one device, one channel and one key
SameNote(a, b) ==
    /\ a.midi_device = b.midi_device
    /\ getChannel(a) = getChannel(b)
    /\ getDataByte(a, 1) = getDataByte(b, 1)

\* C38: after the clean-up and the end-of-list fix-up no note is left
\* pressed: every Note On is followed, later in play order, by a Note Off of
\* the same device, channel and key, with no other Note On of that key in
\* between.
C38_NoNoteLeftPressed ==
    midi_pc \in {"play", "returned"} =>
        \A i \in DOMAIN MidiPlayOrder :
            getAction(MidiPlayOrder[i]) = action_note_on =>
                \E j \in (i + 1)..Len(MidiPlayOrder) :
                    /\ getAction(MidiPlayOrder[j]) = action_note_off
                    /\ SameNote(MidiPlayOrder[i], MidiPlayOrder[j])
                    /\ \A k \in (i + 1)..(j - 1) :
                          ~(/\ getAction(MidiPlayOrder[k]) = action_note_on
                            /\ SameNote(MidiPlayOrder[i], MidiPlayOrder[k]))

\* The list is ready to play with a Note Off that the clean-up inserted
\* before a repeated Note On and a Note Off that the fix-up appended
C38_Witness ==
    /\ midi_pc = "play"
    /\ midiProcessed = <<>>
    /\ \E i, j \in DOMAIN midiToProcess :
          /\ getAction(midiToProcess[i]) = action_note_off
          /\ midiToProcess[i].priority = 255
          /\ getDataByte(midiToProcess[i], 2) = 0
          /\ getAction(midiToProcess[i + 1]) = action_note_on
          /\ j > i + 1
          /\ getAction(midiToProcess[j]) = action_note_off
          /\ midiToProcess[j].priority = 255
          /\ getDataByte(midiToProcess[j], 2) = 100

\* The positions in play order of the clock pins of midi_device
ClockPositions(midi_device) ==
    {i \in DOMAIN MidiPlayOrder :
        /\ MidiPlayOrder[i].midi_device = midi_device
        /\ getStatusByte(MidiPlayOrder[i]) \in ClockStatuses}

\* C39: after the clean-up and the fix-up, for every device with an open
\* port that has a clock pin (Timing Clock, Start, Continue or Stop) in the
\* list, the last such pin in play order is a Stop.
C39_LastClockIsStop ==
    midi_pc \in {"play", "returned"} =>
        \A midi_device \in MidiDevices :
            (/\ available_midi_devices[midi_device].opened_port
             /\ ClockPositions(midi_device) # {}) =>
                \E i \in ClockPositions(midi_device) :
                    /\ \A j \in ClockPositions(midi_device) : j <= i
                    /\ getStatusByte(MidiPlayOrder[i]) = system_clock_stop

\* The list is ready to play and holds one pin, a clock message that is
\* not a Stop
C39_Witness ==
    /\ midi_pc = "play"
    /\ midiProcessed = <<>>
    /\ Len(midiToProcess) = 1
    /\ getStatusByte(midiToProcess[1]) \in ClockStatuses \ {system_clock_stop}

\* C40: whenever the clean-up pass finishes, the list to process is not
\* empty, so midiToProcess.back() right after the pass is defined.
C40_BackDefined ==
    (midi_pc = "cleanup" /\ pin_it > Len(midiToProcess)) =>
        Len(midiToProcess) > 0

\* The clean-up pass has finished after erasing every pin of the list
C40_Witness ==
    /\ midi_pc = "cleanup"
    /\ midiToProcess = <<>>
    /\ midi_reporting.total_redundant >= 1

====
